---- MODULE Spec2Model ----
(***************************************************************************)
(* Offline synchronisation engine (OfflineSyncService) and the data-access *)
(* layer built on it (FirebaseDatabaseService).                            *)
(*                                                                         *)
(* A record is a function over Fields.  A property a JavaScript object     *)
(* does not have is NA; "" stands for a present but falsy value ('' or     *)
(* null).  Local record sets are the JSON arrays kept in localStorage, the *)
(* remote store is a set of documents per collection.                      *)
(***************************************************************************)
EXTENDS Naturals, Sequences, FiniteSets, TLC

\* ------------------------------------------------------------------ bounds
MaxQueue == 2       \* operations in the pending queue at one time
MaxRecords == 2     \* records in localStorage at one time, all record sets together
MaxDocs == 2        \* document ids in use at one time, all collections together
MaxNetEvents == 1   \* browser connectivity events awaiting delivery
MaxTimers == 1      \* handleOnline timers armed at one time
MaxAsync == 1       \* calls, reads and abandoned remote calls suspended at one time
MaxEnvSteps == 3    \* data-access calls and connectivity changes in one run

\* ------------------------------------------------------------ value domains
NA == "~"
StudentIds == {"S1"}
Dates == {"D1"}
EventNames == {"E1"}
Vals == {"a"}
DocIdPool == <<"d1", "d2", "d3", "d4", "d5", "d6">>
SyncIdPool == <<"q1", "q2", "q3", "q4", "q5", "q6", "q7", "q8", "q9", "q10",
                "q11", "q12", "q13", "q14">>
Collections == {"students", "attendance", "events"}

Truthy(v) == v \notin {NA, ""}

\* `${v}` inside a template literal
Str(v) == IF v = NA THEN "undefined" ELSE v

\* x || ''
OrEmpty(v) == IF Truthy(v) THEN v ELSE ""

Rec(id, sid, date, ev, name, val, synced) ==
    [id |-> id, studentId |-> sid, date |-> date, event |-> ev,
     name |-> name, val |-> val, synced |-> synced, eventName |-> NA]

Fields == {"id", "studentId", "date", "event", "name", "val", "synced",
           "eventName"}

\* { ...a, ...b }: every property b has overrides a's
Spread(a, b) == [f \in Fields |-> IF b[f] # NA THEN b[f] ELSE a[f]]

SeqFilter(s, Test(_)) == SelectSeq(s, Test)

Range(s) == {s[i] : i \in 1..Len(s)}

\* index of the first element satisfying Test, 0 when there is none
FindIndex(s, Test(_)) ==
    LET hits == {i \in 1..Len(s) : Test(s[i])}
    IN IF hits = {} THEN 0 ELSE CHOOSE i \in hits : \A j \in hits : i <= j

\* ------------------------------------------------- OfflineSyncService: storage

\* the matcher shared by the add, update and delete branches
lsMatch(item, data) ==
    IF Truthy(data.id) /\ Truthy(item.id) THEN item.id = data.id
    ELSE IF Truthy(data.studentId) /\ Truthy(item.studentId)
         THEN IF Truthy(data.date) /\ Truthy(data.event)
                 /\ Truthy(item.date) /\ Truthy(item.event)
              THEN /\ item.studentId = data.studentId
                   /\ item.date = data.date
                   /\ item.event = data.event
              ELSE item.studentId = data.studentId
         ELSE FALSE

\* a new item: unsynced unless the data says otherwise
lsNewItem(data) ==
    [data EXCEPT !.synced = IF data.synced # NA THEN data.synced ELSE "F"]

\* items[index] = { ...items[index], ...data, _synced: isSynced }
lsMergeItem(item, data) ==
    [Spread(item, data) EXCEPT
        !.synced = IF data.synced # NA THEN data.synced ELSE item.synced]

lsUpsert(items, data) ==
    LET index == FindIndex(items, LAMBDA it : lsMatch(it, data))
    IN IF index = 0 THEN Append(items, lsNewItem(data))
       ELSE [items EXCEPT ![index] = lsMergeItem(items[index], data)]

saveToLocalStorage(items, data, operation) ==
    CASE operation = "add" -> lsUpsert(items, data)
      [] operation = "update" -> lsUpsert(items, data)
      [] operation = "delete" -> SeqFilter(items, LAMBDA it : ~lsMatch(it, data))

markMatch(item, criteria) ==
    IF Truthy(criteria.id) /\ Truthy(item.id) THEN item.id = criteria.id
    ELSE IF Truthy(criteria.studentId)
         THEN IF Truthy(criteria.date) /\ Truthy(criteria.event)
              THEN /\ item.studentId = criteria.studentId
                   /\ item.date = criteria.date
                   /\ item.event = criteria.event
              ELSE item.studentId = criteria.studentId
         ELSE FALSE

RECURSIVE markAsSynced(_, _)
markAsSynced(items, criteria) ==
    IF items = <<>> THEN <<>>
    ELSE <<IF markMatch(Head(items), criteria)
           THEN [Head(items) EXCEPT !.synced = "T"] ELSE Head(items)>>
         \o markAsSynced(Tail(items), criteria)

\* the verb of the operation type decides the local operation
lsOperation(opType) ==
    CASE opType \in {"updateAttendanceRecord", "updateStudent"} -> "update"
      [] opType \in {"deleteStudent", "deleteEvent",
                     "deleteAttendanceRecordsByEvent"} -> "delete"
      [] OTHER -> "add"

\* ---------------------------------------------------------------- mergeData

getKey(item, uniqueKey) ==
    IF uniqueKey = "id"
    THEN IF Truthy(item.studentId) THEN "student_" \o item.studentId
         ELSE IF Truthy(item.id) THEN "id_" \o item.id
         ELSE NA
    ELSE IF uniqueKey = "studentId"
    THEN IF Truthy(item.studentId) THEN "student_" \o item.studentId ELSE NA
    ELSE Str(item.studentId) \o "_" \o Str(item.date) \o "_" \o Str(item.event)

RECURSIVE mergeInto(_, _, _)
\* one forEach pass: push the items whose key is set and not yet seen
mergeInto(merged, items, uniqueKey) ==
    IF items = <<>> THEN merged
    ELSE LET key == getKey(Head(items), uniqueKey)
             seenKeys == {getKey(merged[i], uniqueKey) : i \in 1..Len(merged)}
         IN mergeInto(IF Truthy(key) /\ key \notin seenKeys
                      THEN Append(merged, Head(items)) ELSE merged,
                      Tail(items), uniqueKey)

\* a faulty variant: the remote records are merged first
mergeRemoteFirst(localData, firebaseData, uniqueKey) ==
    mergeInto(mergeInto(<<>>, firebaseData, uniqueKey), localData, uniqueKey)

mergeData(localData, firebaseData, uniqueKey) ==
    mergeInto(mergeInto(<<>>, localData, uniqueKey), firebaseData, uniqueKey)


\* ------------------------------------------------------------------- state
VARIABLES
    navOnline,      \* navigator.onLine
    netEvents,      \* browser 'online' / 'offline' events not yet delivered
    isOnline,       \* OfflineSyncService.isOnline
    settleTimers,   \* handleOnline's 2 s timers not yet fired
    initTimer,      \* the constructor's 500 ms timer has not fired yet
    fbReady,        \* window.firebaseDb is set
    syncInProgress, \* OfflineSyncService.syncInProgress
    ls,             \* localStorage 'offline_<collection>': collection -> records
    pendingQueue,   \* localStorage 'pendingSyncQueue'
    fb,             \* the remote store: collection -> set of documents
    calls,          \* executeWithOfflineSupport calls awaiting their remote call
    late,           \* remote calls still running after their timeout was reported
    drain,          \* the running passes of syncPendingData
    remoteOk,       \* syncIds whose replay the remote store has applied
    fetch,          \* the read call awaiting the remote store, if any
    result,         \* what the data-access call that returned in the last step returned
    storageThrew,   \* a localStorage.setItem call of the engine has thrown
    envSteps        \* data-access calls and connectivity changes so far

vars == <<navOnline, netEvents, isOnline, settleTimers, initTimer, fbReady,
          syncInProgress, ls, pendingQueue, fb, calls, late, drain,
          remoteOk, fetch, result, storageThrew, envSteps>>

NoFetch == [pc |-> "idle"]
NoResult == [of |-> "none"]

\* the state after construction, but for the variable fetch
InitBut ==
    /\ navOnline \in BOOLEAN
    /\ netEvents = <<>>
    /\ isOnline = navOnline
    /\ settleTimers = 0
    /\ initTimer = TRUE
    /\ fbReady \in BOOLEAN
    /\ syncInProgress = FALSE
    /\ ls = [c \in Collections |-> <<>>]
    /\ pendingQueue = <<>>
    /\ fb = [c \in Collections |-> {}]
    /\ calls = {}
    /\ late = {}
    /\ drain = <<>>
    /\ remoteOk = {}
    /\ result = NoResult
    /\ storageThrew = FALSE
    /\ envSteps = 0

Init ==
    /\ InitBut
    /\ fetch = NoFetch

\* --------------------------------------------------------- the pending queue

getFromLocalStorage(collection) == ls[collection]

Stored(L) == Len(L["students"]) + Len(L["attendance"]) + Len(L["events"])

\* suspended asynchronous activities other than the drain
Suspended ==
    Cardinality(calls) + Cardinality(late) + (IF fetch.pc = "wait" THEN 1 ELSE 0)

SyncIdsOf(queue) == {queue[i].syncId : i \in 1..Len(queue)}

\* syncIds of the operation objects that are still alive somewhere
LiveSyncIds(queue) ==
    SyncIdsOf(queue)
        \cup UNION {SyncIdsOf(drain[d].queue) : d \in 1..Len(drain)}
        \cup {l.op.syncId : l \in {k \in late : k.kind = "drain"}}
        \cup remoteOk

\* sync_${Date.now()}_${random}: an id no live operation has
FreshSyncId(queue) ==
    LET free == {i \in 1..Len(SyncIdPool) : SyncIdPool[i] \notin LiveSyncIds(queue)}
    IN SyncIdPool[CHOOSE i \in free : \A j \in free : i <= j]

Op(type, data, collection) ==
    [type |-> type, data |-> data, collection |-> collection]

addToPendingQueue(queue, operation) ==
    Append(queue, [syncId |-> FreshSyncId(queue), type |-> operation.type,
                   data |-> operation.data, collection |-> operation.collection,
                   synced |-> FALSE])


\* ------------------------------------------------------------ the remote store

RecIds(records) == {r.id : r \in records}

\* document ids some record, operation or call in the system still carries
UsedDocIds ==
    UNION {RecIds(fb[c]) \cup RecIds(Range(ls[c])) : c \in Collections}
        \cup {pendingQueue[i].data.id : i \in 1..Len(pendingQueue)}
        \cup UNION {{drain[d].queue[i].data.id : i \in 1..Len(drain[d].queue)} :
                    d \in 1..Len(drain)}
        \cup {c.data.id : c \in calls}
        \cup {IF l.kind = "exec" THEN l.call.data.id ELSE l.op.data.id : l \in late}
        \cup (IF fetch.pc = "wait" THEN RecIds(Range(fetch.snapshot)) ELSE {})
        \cup (IF result.of = "none" THEN {} ELSE RecIds(Range(result.value)))

FreeDocIds == {i \in 1..MaxDocs : DocIdPool[i] \notin UsedDocIds}

\* the id the store gives a new document: one nothing refers to
NewDocId == DocIdPool[CHOOSE i \in FreeDocIds : \A j \in FreeDocIds : i <= j]

WithDoc(F, collection, doc) == [F EXCEPT ![collection] = @ \cup {doc}]
WithoutDoc(F, collection, doc) == [F EXCEPT ![collection] = @ \ {doc}]

\* collection.add(doc): the store assigns the document id
Created(F, collection, doc) ==
    IF FreeDocIds # {}
    THEN {WithDoc(F, collection, [doc EXCEPT !.id = NewDocId])}
    ELSE {}

\* docRef.update(fields): the given properties replace the document's
Updated(F, collection, targets, fields) ==
    {[F EXCEPT ![collection] =
         (@ \ {t}) \cup {[Spread(t, fields) EXCEPT !.id = t.id]}] : t \in targets}

\* query.limit(1): any one of the matching documents
DeletedOne(F, collection, hits) ==
    IF hits = {} THEN {F} ELSE {WithoutDoc(F, collection, d) : d \in hits}

ByStudent(docs, data) == {d \in docs : d.studentId = data.studentId}

ByKey(docs, data) ==
    IF Truthy(data.studentId) /\ Truthy(data.date) /\ Truthy(data.event)
    THEN {d \in docs : /\ d.studentId = data.studentId
                       /\ d.date = data.date
                       /\ d.event = data.event}
    ELSE {}

ByPartialKey(docs, data) ==
    IF Truthy(data.studentId) /\ Truthy(data.date)
    THEN {d \in docs : d.studentId = data.studentId /\ d.date = data.date}
    ELSE {}

ById(docs, id) == IF Truthy(id) THEN {d \in docs : d.id = id} ELSE {}

\* the fields both replays and addAttendanceRecord force to be present
Normalised(data) ==
    [data EXCEPT !.studentId = OrEmpty(@), !.date = OrEmpty(@),
                 !.event = OrEmpty(@), !.val = OrEmpty(@)]

\* the studentRecord of addStudent: only the student's own fields
studentRecord(data) == Rec(NA, data.studentId, NA, NA, NA, data.val, NA)

\* The firebaseOperation each data-access method hands to
\* executeWithOfflineSupport: the set of states the remote store can be left in.
firebaseOperation(call, F) ==
    CASE call.type = "addStudent" ->
            Created(F, "students", studentRecord(call.data))
      [] call.type = "addAttendanceRecord" ->
            Created(F, "attendance", call.data)
      [] call.type = "createEvent" ->
            Created(F, "events", call.data)
      [] call.type = "deleteStudent" ->
            DeletedOne(F, "students", ByStudent(F["students"], call.data))
      [] call.type = "updateAttendanceRecord" ->
            LET docs == F["attendance"]
                byId == ById(docs, call.data.id)
                byKey == ByKey(docs, call.raw)
                byPartial == ByPartialKey(docs, call.raw)
                targets == IF byId # {} THEN byId
                           ELSE IF byKey # {} THEN byKey ELSE byPartial
            IN IF targets # {}
               THEN Updated(F, "attendance", targets, call.raw)
               ELSE Created(F, "attendance", call.raw)

Call(type, data, collection, raw) ==
    [type |-> type, data |-> data, collection |-> collection, raw |-> raw]

LocalResult(type, items) == [of |-> type, kind |-> "local", value |-> items]
RemoteResult(type) == [of |-> type, kind |-> "remote", value |-> <<>>]

\* ------------------------------------------------- executeWithOfflineSupport

\* a faulty variant: the local write is made only when the call goes offline
executeRemoteFirst(L, type, data, collection, raw) ==
    LET saved == [L EXCEPT ![collection] =
                     saveToLocalStorage(@, data, lsOperation(type))]
    IN /\ Stored(saved) <= MaxRecords
       /\ IF isOnline /\ fbReady
          THEN /\ ls' = L
               /\ calls' = calls \cup {Call(type, data, collection, raw)}
               /\ result' = NoResult
               /\ UNCHANGED pendingQueue
          ELSE /\ Len(pendingQueue) < MaxQueue
               /\ ls' = saved
               /\ pendingQueue' = addToPendingQueue(pendingQueue,
                                                    Op(type, data, collection))
               /\ result' = LocalResult(type, saved[collection])
               /\ UNCHANGED calls

\* a faulty variant: the remote call is started whatever the connectivity flag says
executeIgnoresFlag(L, type, data, collection, raw) ==
    LET saved == [L EXCEPT ![collection] =
                     saveToLocalStorage(@, data, lsOperation(type))]
    IN /\ Stored(saved) <= MaxRecords
       /\ ls' = saved
       /\ calls' = calls \cup {Call(type, data, collection, raw)}
       /\ result' = NoResult
       /\ UNCHANGED pendingQueue

\* up to the await of the remote call; L is localStorage as the caller left it
executeWithOfflineSupport(L, type, data, collection, raw) ==
    LET saved == [L EXCEPT ![collection] =
                     saveToLocalStorage(@, data, lsOperation(type))]
    IN /\ Stored(saved) <= MaxRecords
       /\ ls' = saved
       /\ IF isOnline /\ fbReady
          THEN /\ calls' = calls \cup {Call(type, data, collection, raw)}
               /\ result' = NoResult
               /\ UNCHANGED pendingQueue
          ELSE /\ Len(pendingQueue) < MaxQueue
               /\ pendingQueue' = addToPendingQueue(pendingQueue,
                                                    Op(type, data, collection))
               /\ result' = LocalResult(type, saved[collection])
               /\ UNCHANGED calls

\* The remote store answers only while the network is up.

\* the remote call resolved within the deadline
ExecuteResolved(c) ==
    /\ c \in calls
    /\ navOnline
    /\ \E F \in firebaseOperation(c, fb) : fb' = F
    /\ ls' = [ls EXCEPT ![c.collection] = markAsSynced(@, c.data)]
    /\ calls' = calls \ {c}
    /\ result' = RemoteResult(c.type)
    /\ UNCHANGED <<navOnline, netEvents, isOnline, settleTimers, initTimer,
                   fbReady, syncInProgress, pendingQueue, late, drain,
                   remoteOk, fetch,
                   storageThrew, envSteps>>

\* a faulty variant: the catch branch returns the local set and queues nothing
executeCatchDrops(c) ==
    /\ Len(pendingQueue) < MaxQueue
    /\ pendingQueue' = pendingQueue
    /\ result' = LocalResult(c.type, getFromLocalStorage(c.collection))
    /\ calls' = calls \ {c}

\* the catch branch: the operation is queued and the local set returned
executeCatch(c) ==
    /\ Len(pendingQueue) < MaxQueue
    /\ pendingQueue' = addToPendingQueue(pendingQueue,
                                         Op(c.type, c.data, c.collection))
    /\ result' = LocalResult(c.type, getFromLocalStorage(c.collection))
    /\ calls' = calls \ {c}

\* the remote call rejected
ExecuteRejected(c) ==
    /\ c \in calls
    /\ executeCatch(c)
    /\ UNCHANGED <<navOnline, netEvents, isOnline, settleTimers, initTimer,
                   fbReady, syncInProgress, ls, fb, late, drain, remoteOk,
                   fetch,
                   storageThrew, envSteps>>

\* a faulty variant: no timer; the wait ends only with the remote call
ExecuteOutwaits(c, completes) ==
    /\ c \in calls
    /\ completes
    /\ navOnline
    /\ executeCatch(c)
    /\ late' = late \cup {[kind |-> "exec", call |-> c]}
    /\ UNCHANGED <<navOnline, netEvents, isOnline, settleTimers, initTimer,
                   fbReady, syncInProgress, ls, fb, drain, remoteOk, fetch,
                   storageThrew, envSteps>>

\* resultWithTimeout's timer won the race; the remote call itself goes on
\* (completes) or is never heard of again
ExecuteTimedOut(c, completes) ==
    /\ c \in calls
    /\ executeCatch(c)
    /\ late' = IF completes THEN late \cup {[kind |-> "exec", call |-> c]}
               ELSE late
    /\ UNCHANGED <<navOnline, netEvents, isOnline, settleTimers, initTimer,
                   fbReady, syncInProgress, ls, fb, drain, remoteOk, fetch,
                   storageThrew, envSteps>>

\* a call abandoned by executeWithOfflineSupport completes at the remote store
LateExecuteDone(l) ==
    /\ l \in late
    /\ l.kind = "exec"
    /\ navOnline
    /\ \E F \in firebaseOperation(l.call, fb) : fb' = F
    /\ late' = late \ {l}
    /\ result' = NoResult
    /\ UNCHANGED <<navOnline, netEvents, isOnline, settleTimers, initTimer,
                   fbReady, syncInProgress, ls, pendingQueue, calls, drain,
                   remoteOk, fetch,
                   storageThrew, envSteps>>

\* ---------------------------------------------- FirebaseDatabaseService writes

\* room for one more remote call that outlives its timeout
CanAbandon == Suspended < MaxAsync

CanWrite == Suspended < MaxAsync

\* one more step of the environment: a call of the page or a connectivity change
EnvStep ==
    /\ envSteps < MaxEnvSteps
    /\ envSteps' = envSteps + 1

WriteFrame ==
    /\ EnvStep
    /\ UNCHANGED <<navOnline, netEvents, isOnline, settleTimers, initTimer,
                   fbReady, syncInProgress, fb, late, drain, remoteOk, fetch,
                   storageThrew>>

addStudent(studentId, val) ==
    /\ CanWrite
    /\ LET data == Rec(NA, studentId, NA, NA, NA, val, NA)
       IN executeWithOfflineSupport(ls, "addStudent", data, "students", data)
    /\ WriteFrame

addAttendanceRecord(studentId, date, event, val) ==
    /\ CanWrite
    /\ LET record == Normalised(Rec(NA, studentId, date, event, NA, val, NA))
       IN executeWithOfflineSupport(ls, "addAttendanceRecord", record,
                                    "attendance", record)
    /\ WriteFrame

createEvent(name) ==
    /\ CanWrite
    /\ LET eventRecord == Rec(NA, NA, NA, NA, name, NA, NA)
       IN executeWithOfflineSupport(ls, "createEvent", eventRecord, "events",
                                    eventRecord)
    /\ WriteFrame

\* ----------------------------------------------- FirebaseDatabaseService reads

\* the orders in which a query snapshot can list a set of documents
Orders(docs) ==
    {q \in [1..Cardinality(docs) -> docs] :
        \A i, j \in 1..Cardinality(docs) : i # j => q[i] # q[j]}

attendanceKey(r) == Str(r.studentId) \o "_" \o Str(r.date) \o "_" \o Str(r.event)

\* whether the read saves a remote record; known are the local records it looked at
fetchSaves(collection, known, doc) ==
    CASE collection = "students" ->
            doc.studentId \notin {known[i].studentId : i \in 1..Len(known)}
      [] collection = "attendance" ->
            attendanceKey(doc) \notin {attendanceKey(known[i]) : i \in 1..Len(known)}
      [] collection = "events" ->
            Truthy(doc.id) /\ doc.id \notin {known[i].id : i \in 1..Len(known)}

RECURSIVE saveFetched(_, _, _, _)
\* firebaseRecords.forEach: save the remote records the local set lacks
saveFetched(items, collection, known, docs) ==
    IF docs = <<>> THEN items
    ELSE saveFetched(IF fetchSaves(collection, known, Head(docs))
                     THEN saveToLocalStorage(items, Head(docs), "add")
                     ELSE items,
                     collection, known, Tail(docs))

\* the uniqueKey each read passes to mergeData
fetchUniqueKey(collection) == IF collection = "events" THEN "id" ELSE "studentId"

\* what the read checks remote records against: the records it read before the
\* remote call (students, attendance) or the set re-read after it (events)
fetchKnown(collection, snapshot, current) ==
    IF collection = "events" THEN current ELSE snapshot

FetchFrame ==
    UNCHANGED <<navOnline, netEvents, isOnline, settleTimers, initTimer,
                fbReady, syncInProgress, pendingQueue, fb, calls, late,
                drain, remoteOk, storageThrew>>

\* what a read returns when it is offline or its query failed
LocalRead(collection, localRecords) ==
    [of |-> "get", kind |-> "local", collection |-> collection,
     value |-> localRecords]

\* what an online read returns: the merge of the records it read before the
\* query with the query's documents (kept with the result: local, remote)
MergedResult(collection, localRecords, firebaseRecords) ==
    [of |-> "get", kind |-> "merged", collection |-> collection,
     local |-> localRecords, remote |-> firebaseRecords,
     value |-> mergeData(localRecords, firebaseRecords,
                         fetchUniqueKey(collection))]

\* getStudents / getAttendanceRecords / getEvents up to the remote query
FetchStart(collection) ==
    /\ fetch.pc = "idle"
    /\ IF isOnline /\ fbReady
       THEN /\ Suspended < MaxAsync
            /\ fetch' = [pc |-> "wait", collection |-> collection,
                         snapshot |-> getFromLocalStorage(collection)]
            /\ result' = NoResult
       ELSE /\ result' = LocalRead(collection, getFromLocalStorage(collection))
            /\ UNCHANGED fetch
    /\ UNCHANGED ls
    /\ EnvStep
    /\ FetchFrame

\* the query snapshot arrived
FetchResolved ==
    /\ fetch.pc = "wait"
    /\ navOnline
    /\ \E docs \in Orders(fb[fetch.collection]) :
          LET c == fetch.collection
              known == fetchKnown(c, fetch.snapshot, getFromLocalStorage(c))
          IN /\ ls' = [ls EXCEPT ![c] = saveFetched(@, c, known, docs)]
             /\ Stored(ls') <= MaxRecords
             /\ result' = MergedResult(c, fetch.snapshot, docs)
    /\ fetch' = NoFetch
    /\ UNCHANGED envSteps
    /\ FetchFrame

\* the query rejected: the read returns the records it read before
FetchRejected ==
    /\ fetch.pc = "wait"
    /\ result' = LocalRead(fetch.collection, fetch.snapshot)
    /\ fetch' = NoFetch
    /\ UNCHANGED <<ls, envSteps>>
    /\ FetchFrame

\* ------------------------------------ deleteStudent, updateAttendanceRecord

\* deleteStudent: getStudents, then the delete when the student is among them
deleteStudent(studentId, docs, fetched) ==
    /\ CanWrite
    /\ LET online == isOnline /\ fbReady /\ fetched
           local == getFromLocalStorage("students")
           L == IF online
                THEN [ls EXCEPT !["students"] =
                         saveFetched(@, "students", local, docs)]
                ELSE ls
           students == IF online THEN mergeData(local, docs, "studentId")
                       ELSE local
           deleteData == Rec(NA, studentId, NA, NA, NA, NA, NA)
       IN /\ fetched => navOnline /\ isOnline /\ fbReady
          /\ Stored(L) <= MaxRecords
          /\ ~fetched => docs = <<>>
          /\ IF \E i \in 1..Len(students) : students[i].studentId = studentId
             THEN executeWithOfflineSupport(L, "deleteStudent", deleteData,
                                            "students", deleteData)
             ELSE /\ ls' = L
                  /\ result' = [of |-> "deleteStudent", kind |-> "notfound",
                                value |-> <<>>]
                  /\ UNCHANGED <<pendingQueue, calls>>
    /\ WriteFrame

FirstTruthy(a, b) == IF Truthy(a) THEN a ELSE OrEmpty(b)

\* updateAttendanceRecord's own write to localStorage, before the wrapper's
updateLocalRecord(localRecords, recordId, updateData) ==
    LET hit(r) ==
            \/ Truthy(recordId) /\ r.id = recordId
            \/ /\ Truthy(updateData.studentId)
               /\ r.studentId = updateData.studentId
               /\ \/ /\ Truthy(updateData.date) /\ Truthy(updateData.event)
                     /\ r.date = updateData.date /\ r.event = updateData.event
                  \/ Truthy(updateData.date) /\ r.date = updateData.date
        recordIndex == FindIndex(localRecords, hit)
        existingRecord == localRecords[recordIndex]
    IN IF ~Truthy(updateData.studentId) THEN localRecords
       ELSE IF recordIndex # 0
       THEN [localRecords EXCEPT ![recordIndex] =
               [Spread(existingRecord, updateData) EXCEPT
                  !.val = IF updateData.val # NA THEN updateData.val
                          ELSE OrEmpty(existingRecord.val),
                  !.date = FirstTruthy(updateData.date, existingRecord.date),
                  !.event = FirstTruthy(updateData.event, existingRecord.event),
                  !.studentId = FirstTruthy(updateData.studentId,
                                            existingRecord.studentId)]]
       ELSE Append(localRecords, updateData)

updateAttendanceRecord(recordId, studentId, date, event, val) ==
    /\ CanWrite
    /\ LET updateData == Rec(NA, studentId, date, event, NA, val, NA)
           updateRecord == [Normalised(updateData) EXCEPT !.id = recordId]
           L == [ls EXCEPT !["attendance"] =
                    updateLocalRecord(@, recordId, updateData)]
       IN executeWithOfflineSupport(L, "updateAttendanceRecord", updateRecord,
                                    "attendance", updateData)
    /\ WriteFrame

\* ------------------------------------------- deleteAttendanceRecordsByEvent

\* { eventName }: the data of a queued delete-by-event
eventCriteria(eventName) ==
    [Rec(NA, NA, NA, NA, NA, NA, NA) EXCEPT !.eventName = eventName]

ByEvent(docs, eventName) == {d \in docs : d.event = eventName}

WithoutEvent(records, eventName) ==
    SelectSeq(records, LAMBDA r : r.event # eventName)

\* deleteAttendanceRecordsByEvent.  The local records of the event are removed
\* first.  Offline the delete is queued.  Online getAttendanceRecordsByEvent is
\* awaited: its query lists docs in "ok" and "deletefail" and rejects in
\* "queryfail", where it returns the local records, none of which is left;
\* the documents of the merged records are deleted, all of them in "ok", not
\* all of them in "deletefail", which queues the delete.
deleteAttendanceRecordsByEvent(eventName, outcome, docs, deleted) ==
    LET filtered == [ls EXCEPT !["attendance"] = WithoutEvent(@, eventName)]
        operation == Op("deleteAttendanceRecordsByEvent",
                        eventCriteria(eventName), NA)
        fetched == [filtered EXCEPT !["attendance"] =
                       saveFetched(@, "attendance", <<>>, docs)]
        records == mergeData(<<>>, docs, "studentId")
        targets == {d \in fb["attendance"] : d.id \in RecIds(Range(records))}
    IN /\ CanWrite
       /\ IF ~(isOnline /\ fbReady)
          THEN /\ outcome = "offline"
               /\ docs = <<>> /\ deleted = {}
               /\ Len(pendingQueue) < MaxQueue
               /\ ls' = filtered
               /\ pendingQueue' = addToPendingQueue(pendingQueue, operation)
               /\ UNCHANGED fb
          ELSE CASE outcome = "ok" ->
                      /\ navOnline
                      /\ docs \in Orders(ByEvent(fb["attendance"], eventName))
                      /\ deleted = targets
                      /\ Stored(fetched) <= MaxRecords
                      /\ ls' = fetched
                      /\ fb' = [fb EXCEPT !["attendance"] = @ \ deleted]
                      /\ UNCHANGED pendingQueue
                 [] outcome = "queryfail" ->
                      /\ docs = <<>> /\ deleted = {}
                      /\ ls' = filtered
                      /\ UNCHANGED <<fb, pendingQueue>>
                 [] outcome = "deletefail" ->
                      /\ navOnline
                      /\ docs \in Orders(ByEvent(fb["attendance"], eventName))
                      /\ deleted \subseteq targets /\ deleted # targets
                      /\ Stored(fetched) <= MaxRecords
                      /\ Len(pendingQueue) < MaxQueue
                      /\ ls' = fetched
                      /\ fb' = [fb EXCEPT !["attendance"] = @ \ deleted]
                      /\ pendingQueue' = addToPendingQueue(pendingQueue, operation)
                 [] OTHER -> FALSE
       /\ result' = [of |-> "deleteAttendanceRecordsByEvent", kind |-> outcome,
                     value |-> <<>>]
       /\ EnvStep
       /\ UNCHANGED <<navOnline, netEvents, isOnline, settleTimers, initTimer,
                      fbReady, syncInProgress, calls, late, drain, remoteOk,
                      fetch, storageThrew>>

\* --------------------------------------------------------------- clearAllData

\* { studentId: student.studentId }
studentCriteria(student) == Rec(NA, student.studentId, NA, NA, NA, NA, NA)

\* { studentId, date, event } of a record
recordCriteria(record) ==
    Rec(NA, record.studentId, record.date, record.event, NA, NA, NA)

RECURSIVE queueStudentDeletes(_, _)
\* for (const student of students): one deleteStudent per student with an id
queueStudentDeletes(queue, students) ==
    IF students = <<>> THEN queue
    ELSE queueStudentDeletes(
            IF Truthy(Head(students).studentId)
            THEN addToPendingQueue(queue, Op("deleteStudent",
                                             studentCriteria(Head(students)), NA))
            ELSE queue,
            Tail(students))

RECURSIVE queueRecordDeletes(_, _)
\* for (const record of records): one deleteAttendanceRecord per record that
\* has its three key fields
queueRecordDeletes(queue, records) ==
    IF records = <<>> THEN queue
    ELSE queueRecordDeletes(
            IF /\ Truthy(Head(records).studentId) /\ Truthy(Head(records).date)
               /\ Truthy(Head(records).event)
            THEN addToPendingQueue(queue, Op("deleteAttendanceRecord",
                                             recordCriteria(Head(records)), NA))
            ELSE queue,
            Tail(records))

\* clearAllData.  getStudents and getAttendanceRecords are awaited (fetched:
\* their queries answered, with sdocs and adocs), the two local record sets are
\* removed, one delete is queued for every student and record read, and while
\* the flag is online the documents the records name are deleted (cleared:
\* the deletes went through; a failure is caught).
clearAllData(fetched, sdocs, adocs, cleared) ==
    LET online == isOnline /\ fbReady /\ fetched
        students == IF online
                    THEN mergeData(getFromLocalStorage("students"), sdocs,
                                   "studentId")
                    ELSE getFromLocalStorage("students")
        records == IF online
                   THEN mergeData(getFromLocalStorage("attendance"), adocs,
                                  "studentId")
                   ELSE getFromLocalStorage("attendance")
        queued == queueRecordDeletes(queueStudentDeletes(pendingQueue, students),
                                     records)
    IN /\ Suspended < MaxAsync
       /\ fetched => navOnline /\ isOnline /\ fbReady
       /\ ~fetched => sdocs = <<>> /\ adocs = <<>>
       /\ cleared => navOnline /\ isOnline /\ fbReady
       /\ Len(queued) <= MaxQueue
       /\ ls' = [ls EXCEPT !["students"] = <<>>, !["attendance"] = <<>>]
       /\ pendingQueue' = queued
       /\ fb' = IF cleared
                THEN [fb EXCEPT
                        !["students"] =
                           {d \in @ : d.id \notin RecIds(Range(students))},
                        !["attendance"] =
                           {d \in @ : d.id \notin RecIds(Range(records))}]
                ELSE fb
       /\ result' = [of |-> "clearAllData", kind |-> "done", value |-> <<>>]
       /\ EnvStep
       /\ UNCHANGED <<navOnline, netEvents, isOnline, settleTimers, initTimer,
                      fbReady, syncInProgress, calls, late, drain, remoteOk,
                      fetch, storageThrew>>

\* ------------------------------------------------------------ syncPendingData

\* triggerStatusUpdate was called n times in the step: n 'offlineStatusChanged'
\* events were dispatched, each carrying the flag as the step leaves it
StatusChanged(n, online) ==
    [of |-> "triggerStatusUpdate", kind |-> "notify", value |-> <<>>,
     count |-> n, online |-> online]

Emitted(n, online) == IF n = 0 THEN NoResult ELSE StatusChanged(n, online)

\* syncPendingData returned at 'Sync already in progress...'
SyncRefused == [of |-> "syncPendingData", kind |-> "already", value |-> <<>>]

\* The part of the engine's state a drain trigger reads and writes; log: a call
\* of syncPendingData in this step found a drain in progress; emits: the
\* calls of triggerStatusUpdate the step has made, flag: isOnline as they saw it.
Engine ==
    [sip |-> syncInProgress, drain |-> drain, queue |-> pendingQueue,
     ok |-> remoteOk, log |-> "none", emits |-> 0, flag |-> isOnline]

SetEngine(e) ==
    /\ syncInProgress' = e.sip
    /\ drain' = e.drain
    /\ pendingQueue' = e.queue
    /\ remoteOk' = e.ok
    /\ result' = IF e.log = "none" THEN Emitted(e.emits, e.flag)
                  ELSE SyncRefused

\* a faulty variant: no test of syncInProgress
syncUnguarded(e, online) ==
    IF ~online THEN e
    ELSE IF e.queue = <<>> THEN e
    ELSE IF ~fbReady THEN e
    ELSE [e EXCEPT !.sip = TRUE, !.ok = {},
                   !.drain = Append(@, [queue |-> e.queue, idx |-> 1])]

\* syncPendingData up to its first await: the guards, the flag, the snapshot
syncPendingData(e, online) ==
    IF e.sip THEN [e EXCEPT !.log = "already"]
    ELSE IF ~online THEN e
    ELSE IF e.queue = <<>> THEN e
    ELSE IF ~fbReady THEN e
    ELSE [e EXCEPT !.sip = TRUE, !.ok = {},
                   !.drain = Append(@, [queue |-> e.queue, idx |-> 1])]

\* a faulty variant: an add is replayed without a look at the remote store
syncReplayBlind(op, F) ==
    CASE op.type = "addAttendanceRecord" ->
            Created(F, "attendance", Normalised(op.data))
      [] op.type = "deleteAttendanceRecordsByEvent" ->
            {[F EXCEPT !["attendance"] = @ \ ByEvent(@, op.data.eventName)]}
      [] OTHER -> {F}

\* What replaying one queued operation does to the remote store when every
\* remote call of the replay succeeds.
syncReplay(op, F) ==
    CASE op.type = "addAttendanceRecord" ->
            IF ByKey(F["attendance"], op.data) # {}
            THEN {F}
            ELSE Created(F, "attendance", Normalised(op.data))
      [] op.type = "updateAttendanceRecord" ->
            LET docs == F["attendance"]
                byKey == ByKey(docs, op.data)
                byPartial == ByPartialKey(docs, op.data)
                byId == ById(docs, op.data.id)
                targets == IF byKey # {} THEN byKey
                           ELSE IF byPartial # {} THEN byPartial ELSE byId
            IN IF targets # {}
               THEN Updated(F, "attendance", targets, op.data)
               ELSE Created(F, "attendance", Normalised(op.data))
      [] op.type = "addStudent" ->
            IF ByStudent(F["students"], op.data) # {}
            THEN {F}
            ELSE Created(F, "students",
                         Rec(NA, OrEmpty(op.data.studentId), NA, NA, NA,
                             OrEmpty(op.data.val), NA))
      [] op.type = "deleteStudent" ->
            DeletedOne(F, "students", ByStudent(F["students"], op.data))
      [] op.type = "updateStudent" ->
            LET hits == ByStudent(F["students"], op.data)
            IN IF hits = {} THEN {F}
               ELSE Updated(F, "students", hits,
                            Rec(NA, NA, NA, NA, NA, OrEmpty(op.data.val), NA))
      [] op.type = "createEvent" ->
            Created(F, "events", op.data)
      [] op.type = "deleteAttendanceRecordsByEvent" ->
            {[F EXCEPT !["attendance"] = @ \ ByEvent(@, op.data.eventName)]}

\* operation types the replay hands back to the data-access layer
ViaDataAccess == {"createEvent"}

\* operation types whose case of the switch talks to the remote store itself
Replayed ==
    {"addAttendanceRecord", "updateAttendanceRecord", "addStudent",
     "updateStudent", "deleteStudent", "deleteAttendanceRecordsByEvent"}

MarkSynced(queue, syncId) ==
    [i \in DOMAIN queue |->
        IF queue[i].syncId = syncId THEN [queue[i] EXCEPT !.synced = TRUE]
        ELSE queue[i]]

Unsynced(queue) == SelectSeq(queue, LAMBDA op : ~op.synced)

DetachLate(L) ==
    {IF l.kind = "drain" THEN [l EXCEPT !.live = FALSE] ELSE l : l \in L}

\* a variant: the batch write filters the queue as it is when the pass ends
syncAdvanceReread(p, snapshot, queue, lateNow, thrown) ==
    IF drain[p].idx < Len(snapshot)
    THEN /\ drain' = [drain EXCEPT ![p] = [queue |-> snapshot, idx |-> @.idx + 1]]
         /\ pendingQueue' = queue
         /\ late' = lateNow
         /\ UNCHANGED <<syncInProgress, storageThrew>>
         /\ ~thrown
    ELSE /\ drain' = SubSeq(drain, 1, p - 1) \o SubSeq(drain, p + 1, Len(drain))
         /\ late' = DetachLate(lateNow)
         /\ ~thrown
         /\ pendingQueue' =
               SelectSeq(queue, LAMBDA op :
                  op.syncId \notin SyncIdsOf(SelectSeq(snapshot,
                                                       LAMBDA o : o.synced)))
         /\ syncInProgress' = FALSE
         /\ UNCHANGED storageThrew

\* After the await of one operation: the loop goes on to the next operation,
\* or ends with the batch write of the operations left and the flag's release.
\* thrown: the batch write's localStorage.setItem throws.
syncAdvance(p, snapshot, queue, lateNow, thrown) ==
    IF drain[p].idx < Len(snapshot)
    THEN /\ drain' = [drain EXCEPT ![p] = [queue |-> snapshot, idx |-> @.idx + 1]]
         /\ pendingQueue' = queue
         /\ late' = lateNow
         /\ UNCHANGED <<syncInProgress, storageThrew>>
         /\ ~thrown
    ELSE /\ drain' = SubSeq(drain, 1, p - 1) \o SubSeq(drain, p + 1, Len(drain))
         /\ late' = DetachLate(lateNow)
         /\ IF thrown
            THEN /\ storageThrew' = TRUE
                 /\ pendingQueue' = queue
                 /\ UNCHANGED syncInProgress
            ELSE /\ pendingQueue' = Unsynced(snapshot)
                 /\ syncInProgress' = FALSE
                 /\ UNCHANGED storageThrew

DrainFrame ==
    /\ result' = NoResult
    /\ UNCHANGED <<navOnline, netEvents, isOnline, settleTimers, initTimer,
                   fbReady, calls, fetch, envSteps>>

CurrentOp(p) == drain[p].queue[drain[p].idx]

\* a replay that talks to the remote store itself: every remote call succeeded
SyncOpResolved(p, thrown) ==
    /\ p \in 1..Len(drain)
    /\ CurrentOp(p).type \in Replayed
    /\ navOnline
    /\ \E F \in syncReplay(CurrentOp(p), fb) : fb' = F
    /\ remoteOk' = remoteOk \cup {CurrentOp(p).syncId}
    /\ syncAdvance(p, MarkSynced(drain[p].queue, CurrentOp(p).syncId),
                   pendingQueue, late, thrown)
    /\ UNCHANGED <<ls>>
    /\ DrainFrame

\* a remote call of the replay rejected (caught inside the case), or the
\* timer of resultWithTimeout won; the replay may still complete afterwards
SyncOpFailed(p, outcome, thrown) ==
    /\ p \in 1..Len(drain)
    /\ CurrentOp(p).type \in Replayed
    /\ outcome = "late" => CanAbandon
    /\ syncAdvance(p, drain[p].queue, pendingQueue,
                   IF outcome = "late"
                   THEN late \cup {[kind |-> "drain", op |-> CurrentOp(p),
                                    live |-> TRUE]}
                   ELSE late,
                   thrown)
    /\ UNCHANGED <<ls, fb, remoteOk>>
    /\ DrainFrame

\* an operation of a type the switch has no case for: the default branch
\* logs a warning, the replay returns at once and the operation is not marked
SyncOpSkipped(p, thrown) ==
    /\ p \in 1..Len(drain)
    /\ CurrentOp(p).type \notin Replayed \cup ViaDataAccess
    /\ syncAdvance(p, drain[p].queue, pendingQueue, late, thrown)
    /\ UNCHANGED <<ls, fb, remoteOk>>
    /\ DrainFrame

\* a replay abandoned by the drain completes: it marks its operation object
LateSyncOpDone(l) ==
    /\ l \in late
    /\ l.kind = "drain"
    /\ navOnline
    /\ \E F \in syncReplay(l.op, fb) : fb' = F
    /\ late' = late \ {l}
    /\ IF l.live
       THEN /\ drain' = [d \in DOMAIN drain |->
                           [drain[d] EXCEPT
                              !.queue = MarkSynced(@, l.op.syncId)]]
            /\ remoteOk' = remoteOk \cup {l.op.syncId}
       ELSE UNCHANGED <<drain, remoteOk>>
    /\ UNCHANGED <<navOnline, netEvents, isOnline, settleTimers, initTimer,
                   fbReady, syncInProgress, ls, pendingQueue, calls, fetch,
                   storageThrew, envSteps>>
    /\ result' = NoResult

\* A createEvent replay calls firebaseDB.createEvent, that is
\* executeWithOfflineSupport again: it saves the event locally, and whatever
\* the remote call does it returns normally, so the replay marks the
\* operation synced.  outcome: "ok", "reject", "timeout", "late" or "offline".
SyncCreateEvent(p, outcome, thrown) ==
    /\ p \in 1..Len(drain)
    /\ CurrentOp(p).type \in ViaDataAccess
    /\ LET op == CurrentOp(p)
           saved == [ls EXCEPT !["events"] =
                        saveToLocalStorage(@, op.data, "add")]
           call == Call("createEvent", op.data, "events", op.data)
           requeued == addToPendingQueue(pendingQueue,
                                         Op("createEvent", op.data, "events"))
           snapshot == MarkSynced(drain[p].queue, op.syncId)
       IN CASE outcome = "ok" ->
                 /\ Stored(saved) <= MaxRecords
                 /\ isOnline /\ fbReady /\ navOnline
                 /\ \E F \in firebaseOperation(call, fb) : fb' = F
                 /\ ls' = [saved EXCEPT !["events"] = markAsSynced(@, op.data)]
                 /\ remoteOk' = remoteOk \cup {op.syncId}
                 /\ syncAdvance(p, snapshot, pendingQueue, late, thrown)
            [] outcome \in {"reject", "timeout", "late"} ->
                 /\ Stored(saved) <= MaxRecords
                 /\ Len(pendingQueue) < MaxQueue
                 /\ isOnline /\ fbReady
                 /\ outcome = "late" => CanAbandon
                 /\ ls' = saved
                 /\ syncAdvance(p, snapshot, requeued,
                                IF outcome = "late"
                                THEN late \cup {[kind |-> "exec", call |-> call]}
                                ELSE late,
                                thrown)
                 /\ UNCHANGED <<fb, remoteOk>>
            [] outcome = "offline" ->
                 /\ Stored(saved) <= MaxRecords
                 /\ Len(pendingQueue) < MaxQueue
                 /\ ~(isOnline /\ fbReady)
                 /\ ls' = saved
                 /\ syncAdvance(p, snapshot, requeued, late, thrown)
                 /\ UNCHANGED <<fb, remoteOk>>
    /\ DrainFrame

\* --------------------------------------------------------- reconcileLocalData

alreadyQueued(item, collection, queue) ==
    \E i \in 1..Len(queue) :
        LET op == queue[i]
        IN IF op.collection # collection THEN FALSE
           ELSE IF Truthy(item.id) /\ Truthy(op.data.id) THEN item.id = op.data.id
           ELSE IF Truthy(item.studentId) /\ Truthy(op.data.studentId)
                THEN IF Truthy(item.date) /\ Truthy(item.event)
                     THEN /\ item.studentId = op.data.studentId
                          /\ item.date = op.data.date
                          /\ item.event = op.data.event
                     ELSE item.studentId = op.data.studentId
                ELSE FALSE

\* the operation type reconciliation guesses for a collection
reconcileType(collection) ==
    IF collection = "attendance" THEN "addAttendanceRecord" ELSE "addStudent"

RECURSIVE requeueUnsynced(_, _, _, _)
\* unsyncedItems.forEach: queue the items the queue read at the start lacks
requeueUnsynced(queue, pendingAtStart, items, collection) ==
    IF items = <<>> THEN queue
    ELSE requeueUnsynced(
            IF Head(items).synced = "F"
               /\ ~alreadyQueued(Head(items), collection, pendingAtStart)
            THEN addToPendingQueue(queue, Op(reconcileType(collection),
                                             Head(items), collection))
            ELSE queue,
            pendingAtStart, Tail(items), collection)

reconcileLocalData(e, online) ==
    LET afterAttendance ==
            requeueUnsynced(e.queue, e.queue,
                            getFromLocalStorage("attendance"), "attendance")
        afterStudents ==
            requeueUnsynced(afterAttendance, e.queue,
                            getFromLocalStorage("students"), "students")
        queued == [e EXCEPT !.queue = afterStudents]
    IN IF Len(afterStudents) > Len(e.queue)
       THEN syncPendingData(queued, online) ELSE queued

\* ------------------------------------------------ connectivity and triggers

TriggerFrame ==
    UNCHANGED <<fbReady, ls, fb, calls, late, fetch, storageThrew>>

\* navigator.onLine changes; the browser queues the matching event
NetChange ==
    /\ Len(netEvents) < MaxNetEvents
    /\ navOnline' = ~navOnline
    /\ netEvents' = Append(netEvents, IF navOnline THEN "offline" ELSE "online")
    /\ EnvStep
    /\ result' = NoResult
    /\ UNCHANGED <<isOnline, settleTimers, initTimer, syncInProgress,
                   pendingQueue, drain, remoteOk>>
    /\ TriggerFrame

\* the 'online' / 'offline' listeners of the constructor, with handleOnline
\* (which arms the 2 s timer) and handleOffline
NetEventDelivered ==
    /\ netEvents # <<>>
    /\ netEvents' = Tail(netEvents)
    /\ isOnline' = (Head(netEvents) = "online")
    /\ settleTimers' = IF Head(netEvents) = "online" THEN settleTimers + 1
                       ELSE settleTimers
    /\ settleTimers' <= MaxTimers
    /\ result' = StatusChanged(2, Head(netEvents) = "online")
    /\ UNCHANGED <<navOnline, initTimer, syncInProgress, pendingQueue, drain,
                   remoteOk, envSteps>>
    /\ TriggerFrame

\* handleOnline's timer: a drain, then a reconciliation
SettleTimerFired ==
    /\ settleTimers > 0
    /\ settleTimers' = settleTimers - 1
    /\ IF isOnline
       THEN SetEngine(reconcileLocalData(syncPendingData(Engine, isOnline),
                                         isOnline))
       ELSE SetEngine(Engine)
    /\ Len(pendingQueue') <= MaxQueue
    /\ UNCHANGED <<navOnline, netEvents, isOnline, initTimer, envSteps>>
    /\ TriggerFrame

\* the 10 s interval
Poll ==
    /\ isOnline' = navOnline
    /\ settleTimers' = IF isOnline # navOnline /\ navOnline
                       THEN settleTimers + 1 ELSE settleTimers
    /\ settleTimers' <= MaxTimers
    /\ LET e == [Engine EXCEPT !.emits = IF isOnline # navOnline THEN 2 ELSE 0,
                              !.flag = navOnline]
       IN IF navOnline /\ ~syncInProgress /\ pendingQueue # <<>>
          THEN SetEngine(syncPendingData(e, navOnline))
          ELSE SetEngine(e)
    /\ UNCHANGED <<navOnline, netEvents, initTimer, envSteps>>
    /\ TriggerFrame

checkOnlineStatus ==
    /\ isOnline' = navOnline
    /\ result' = Emitted(IF isOnline # navOnline THEN 1 ELSE 0, navOnline)
    /\ UNCHANGED <<navOnline, netEvents, settleTimers, initTimer,
                   syncInProgress, pendingQueue, drain, remoteOk, envSteps>>
    /\ TriggerFrame

\* the constructor's 500 ms timer
InitTimerFired ==
    /\ initTimer
    /\ initTimer' = FALSE
    /\ LET e == [Engine EXCEPT !.emits = 1]
       IN IF isOnline THEN SetEngine(syncPendingData(e, isOnline))
          ELSE SetEngine(e)
    /\ UNCHANGED <<navOnline, netEvents, isOnline, settleTimers, envSteps>>
    /\ TriggerFrame

\* the body shared by the visibilitychange and focus listeners
syncIfPending ==
    /\ IF isOnline /\ pendingQueue # <<>>
       THEN SetEngine(syncPendingData(Engine, isOnline))
       ELSE SetEngine(Engine)
    /\ UNCHANGED <<navOnline, netEvents, isOnline, settleTimers, initTimer, envSteps>>
    /\ TriggerFrame

VisibilityChange == syncIfPending

WindowFocus == syncIfPending

\* ------------------------------------------------------------- specification

EventInputs == EventNames \cup {""}

LocalIds(collection) ==
    {r.id : r \in {x \in Range(ls[collection]) : Truthy(x.id)}}

Writes ==
    \/ \E s \in StudentIds, v \in Vals : addStudent(s, v)
    \/ \E s \in StudentIds, d \in Dates, e \in EventInputs, v \in Vals :
          addAttendanceRecord(s, d, e, v)
    \/ \E n \in EventNames : createEvent(n)
    \/ \E s \in StudentIds : deleteStudent(s, <<>>, FALSE)
    \/ \E s \in StudentIds, docs \in Orders(fb["students"]) :
          deleteStudent(s, docs, TRUE)
    \/ \E id \in LocalIds("attendance") \cup {""}, s \in StudentIds,
          d \in Dates, e \in EventInputs, v \in Vals :
          updateAttendanceRecord(id, s, d, e, v)

\* how the remote call of a write can end
WriteAnswers ==
    \/ \E c \in calls : ExecuteResolved(c)
    \/ \E c \in calls : ExecuteRejected(c)
    \/ \E c \in calls, completes \in BOOLEAN : ExecuteTimedOut(c, completes)

RemoteAnswers ==
    \/ WriteAnswers
    \/ \E l \in late : LateExecuteDone(l)
    \/ \E l \in late : LateSyncOpDone(l)
    \/ FetchResolved
    \/ FetchRejected

Drain ==
    \/ \E p \in 1..Len(drain) : SyncOpResolved(p, FALSE)
    \/ \E p \in 1..Len(drain), o \in {"reject", "timeout", "late"} :
          SyncOpFailed(p, o, FALSE)
    \/ \E p \in 1..Len(drain),
          o \in {"ok", "reject", "timeout", "late", "offline"} :
          SyncCreateEvent(p, o, FALSE)

Triggers ==
    \/ NetChange
    \/ NetEventDelivered
    \/ SettleTimerFired
    \/ Poll
    \/ checkOnlineStatus
    \/ InitTimerFired
    \/ VisibilityChange
    \/ WindowFocus

Next ==
    \/ Triggers
    \/ Writes
    \/ \E c \in Collections : FetchStart(c)
    \/ RemoteAnswers
    \/ Drain

Spec == Init /\ [][Next]_vars

\* ----------------------------------------- the batch write of the drain fails

\* the drain steps whose closing localStorage.setItem throws (quota, storage
\* disabled): the exception leaves syncPendingData before the flag is released
DrainFault ==
    \/ \E p \in 1..Len(drain) : SyncOpResolved(p, TRUE)
    \/ \E p \in 1..Len(drain), o \in {"reject", "timeout", "late"} :
          SyncOpFailed(p, o, TRUE)
    \/ \E p \in 1..Len(drain),
          o \in {"ok", "reject", "timeout", "late", "offline"} :
          SyncCreateEvent(p, o, TRUE)

\* the engine's triggers, writes and drain; reads and the late completion of
\* abandoned calls, which never touch syncInProgress, are left out
NextFault ==
    \/ Triggers
    \/ Writes
    \/ WriteAnswers
    \/ Drain
    \/ DrainFault

SpecFault == Init /\ [][NextFault]_vars

\* --------------------------------- attendance written and deleted while offline

\* navigator.onLine changes, as in NetChange; the changes of a run are not
\* counted here
NetFlip ==
    /\ Len(netEvents) < MaxNetEvents
    /\ navOnline' = ~navOnline
    /\ netEvents' = Append(netEvents, IF navOnline THEN "offline" ELSE "online")
    /\ result' = NoResult
    /\ UNCHANGED <<isOnline, settleTimers, initTimer, syncInProgress,
                   pendingQueue, drain, remoteOk, envSteps>>
    /\ TriggerFrame

\* addAttendanceRecord called while the connectivity flag is offline
OfflineAdd ==
    /\ ~isOnline
    /\ \E s \in StudentIds, d \in Dates, e \in EventNames, v \in Vals :
          addAttendanceRecord(s, d, e, v)

DeleteByEvent ==
    \E e \in EventNames, o \in {"offline", "ok", "queryfail", "deletefail"} :
       \E docs \in Orders(ByEvent(fb["attendance"], e)) \cup {<<>>},
          deleted \in SUBSET fb["attendance"] :
          deleteAttendanceRecordsByEvent(e, o, docs, deleted)

\* attendance records added and deleted by event while offline, the reads of
\* the attendance set, the connectivity triggers and the drain
NextOffline ==
    \/ OfflineAdd
    \/ DeleteByEvent
    \/ FetchStart("attendance")
    \/ FetchResolved
    \/ FetchRejected
    \/ NetFlip
    \/ NetEventDelivered
    \/ SettleTimerFired
    \/ Poll
    \/ InitTimerFired
    \/ \E p \in 1..Len(drain) : SyncOpResolved(p, FALSE)
    \/ \E p \in 1..Len(drain), o \in {"reject", "timeout", "late"} :
          SyncOpFailed(p, o, FALSE)
    \/ \E l \in late : LateSyncOpDone(l)

SpecOffline == Init /\ [][NextOffline]_vars

\* ----------------------------------------- the remote store never answers

\* room in the queue for this write and for every call in flight
RoomToQueue == Len(pendingQueue) + Cardinality(calls) < MaxQueue

\* the remote call of a write was never heard of again: the timer ends the wait
WriteTimedOut == \E c \in calls : ExecuteTimedOut(c, FALSE)

\* the replay of a queued operation was never heard of again
ReplayTimedOut == \E p \in 1..Len(drain) : SyncOpFailed(p, "timeout", FALSE)

\* writes, reads, connectivity changes and drains over a remote store none of
\* whose calls returns
NextHang ==
    \/ \E s \in StudentIds, v \in Vals : RoomToQueue /\ addStudent(s, v)
    \/ \E st \in StudentIds, d \in Dates, e \in EventInputs, v \in Vals :
          RoomToQueue /\ addAttendanceRecord(st, d, e, v)
    \/ \E c \in Collections : FetchStart(c)
    \/ NetChange
    \/ NetEventDelivered
    \/ Poll
    \/ InitTimerFired
    \/ WriteTimedOut
    \/ ReplayTimedOut

\* a timer of resultWithTimeout that was set does fire
SpecHang ==
    /\ Init
    /\ [][NextHang]_vars
    /\ WF_vars(WriteTimedOut)
    /\ WF_vars(ReplayTimedOut)

\* ------------------------------------------- the remote store always answers

WriteResolved == \E c \in calls : ExecuteResolved(c)

ReplayResolved == \E p \in 1..Len(drain) : SyncOpResolved(p, FALSE)

\* students added and deleted, connectivity changes, every drain trigger, and
\* a remote store that accepts every call made while the network is up
NextLive ==
    \/ \E s \in StudentIds, v \in Vals : addStudent(s, v)
    \/ \E s \in StudentIds : deleteStudent(s, <<>>, FALSE)
    \/ \E s \in StudentIds, docs \in Orders(fb["students"]) :
          deleteStudent(s, docs, TRUE)
    \/ NetChange
    \/ NetEventDelivered
    \/ SettleTimerFired
    \/ Poll
    \/ InitTimerFired
    \/ WriteResolved
    \/ ReplayResolved

\* events are delivered, timers fire, the interval keeps firing and the remote
\* store answers
SpecLive ==
    /\ Init
    /\ [][NextLive]_vars
    /\ WF_vars(NetEventDelivered)
    /\ WF_vars(SettleTimerFired)
    /\ WF_vars(Poll)
    /\ WF_vars(InitTimerFired)
    /\ WF_vars(WriteResolved)
    /\ WF_vars(ReplayResolved)

\* ------------------------------------------------------- mergeData on its own

MaxMerge == 2       \* records on each side of one mergeData call

BoundedSeq(S, n) == UNION {[1..k -> S] : k \in 0..n}

\* records a local record set can hold
LocalInputs(collection) ==
    CASE collection = "students" ->
            {Rec(id, s, NA, NA, NA, v, sy) :
                id \in {NA, "d1"}, s \in StudentIds, v \in Vals, sy \in {"F", "T"}}
      [] collection = "attendance" ->
            {Rec(id, s, d, e, NA, "a", sy) :
                id \in {NA, "d1"}, s \in StudentIds, d \in Dates,
                e \in EventInputs, sy \in {"F", "T"}}
      [] collection = "events" ->
            {Rec(id, NA, NA, NA, n, NA, sy) :
                id \in {NA, "d1"}, n \in EventNames, sy \in {"F", "T"}}

\* documents a query snapshot can list: each has its document id
RemoteInputs(collection) ==
    CASE collection = "students" ->
            {Rec(id, s, NA, NA, NA, v, NA) :
                id \in {"d1", "d2"}, s \in StudentIds, v \in Vals}
      [] collection = "attendance" ->
            {Rec(id, s, d, e, NA, "a", NA) :
                id \in {"d1", "d2"}, s \in StudentIds, d \in Dates,
                e \in EventInputs}
      [] collection = "events" ->
            {Rec(id, NA, NA, NA, n, NA, NA) :
                id \in {"d1", "d2"}, n \in EventNames}

\* the arguments of one call: a local set and a query snapshot of a collection
MergeInit ==
    /\ InitBut
    /\ \E c \in Collections :
          \E L \in BoundedSeq(LocalInputs(c), MaxMerge),
             R \in BoundedSeq(RemoteInputs(c), MaxMerge) :
             /\ \A i, j \in 1..Len(R) : i # j => R[i].id # R[j].id
             /\ fetch = [pc |-> "merge", collection |-> c,
                         snapshot |-> L, docs |-> R]

\* mergeData(localRecords, firebaseRecords, uniqueKey) as the read of the
\* collection calls it
mergeDataCall ==
    /\ fetch.pc = "merge"
    /\ result' = MergedResult(fetch.collection, fetch.snapshot, fetch.docs)
    /\ fetch' = NoFetch
    /\ UNCHANGED <<navOnline, netEvents, isOnline, settleTimers, initTimer,
                   fbReady, syncInProgress, ls, pendingQueue, fb, calls, late,
                   drain, remoteOk, storageThrew, envSteps>>

MergeSpec == MergeInit /\ [][mergeDataCall]_vars

\* ------------------------ attendance written over a cache of remote records

\* the remote document a local record with an id was saved from
DocOf(r) == [r EXCEPT !.synced = NA]

\* the attendance sets an earlier session can have left in localStorage:
\* records with distinct keys, at most one of them saved from a remote
\* document, whose id it carries
CachedAttendance ==
    {items \in BoundedSeq(LocalInputs("attendance"), MaxRecords) :
        \A i, j \in 1..Len(items) :
           i # j => /\ attendanceKey(items[i]) # attendanceKey(items[j])
                    /\ ~(Truthy(items[i].id) /\ Truthy(items[j].id))}

\* the state after construction over such a localStorage; the remote store
\* holds the documents the cached records came from
CachedInit ==
    /\ navOnline \in BOOLEAN
    /\ netEvents = <<>>
    /\ isOnline = navOnline
    /\ settleTimers = 0
    /\ initTimer = TRUE
    /\ fbReady \in BOOLEAN
    /\ syncInProgress = FALSE
    /\ pendingQueue = <<>>
    /\ calls = {}
    /\ late = {}
    /\ drain = <<>>
    /\ remoteOk = {}
    /\ fetch = NoFetch
    /\ result = NoResult
    /\ storageThrew = FALSE
    /\ envSteps = 0
    /\ \E items \in CachedAttendance :
          /\ ls = [c \in Collections |->
                     IF c = "attendance" THEN items ELSE <<>>]
          /\ fb = [c \in Collections |->
                     IF c = "attendance"
                     THEN {DocOf(items[i]) :
                              i \in {j \in 1..Len(items) : Truthy(items[j].id)}}
                     ELSE {}]

\* attendance records added, updated and read, the answers of the remote
\* store and the changes of the connectivity flag
NextCached ==
    \/ \E s \in StudentIds, d \in Dates, e \in EventInputs, v \in Vals :
          addAttendanceRecord(s, d, e, v)
    \/ \E id \in LocalIds("attendance") \cup {""}, s \in StudentIds,
          d \in Dates, e \in EventInputs, v \in Vals :
          updateAttendanceRecord(id, s, d, e, v)
    \/ FetchStart("attendance")
    \/ FetchResolved
    \/ FetchRejected
    \/ WriteAnswers
    \/ NetChange
    \/ NetEventDelivered
    \/ Poll

SpecCached == CachedInit /\ [][NextCached]_vars

\* ------------------------------- the replay of a queued attendance update

\* the data updateAttendanceRecord(recordId, updateData) queues
UpdateInputs ==
    {[Normalised(Rec(NA, s, d, e, NA, v, NA)) EXCEPT !.id = id] :
        id \in {"", "d1", "d2"}, s \in StudentIds, d \in Dates,
        e \in EventInputs, v \in Vals}

\* The engine is constructed online over a pending queue that holds one
\* attendance update, queued by an earlier call made offline, and a remote
\* store with any attendance documents.
ReplayInit ==
    /\ navOnline = TRUE
    /\ netEvents = <<>>
    /\ isOnline = TRUE
    /\ settleTimers = 0
    /\ initTimer = TRUE
    /\ fbReady = TRUE
    /\ syncInProgress = FALSE
    /\ calls = {}
    /\ late = {}
    /\ drain = <<>>
    /\ remoteOk = {}
    /\ fetch = NoFetch
    /\ result = NoResult
    /\ storageThrew = FALSE
    /\ envSteps = 0
    /\ \E docs \in SUBSET RemoteInputs("attendance"), data \in UpdateInputs :
          /\ Cardinality(docs) <= MaxDocs
          /\ \A a, b \in docs : a # b => a.id # b.id
          /\ fb = [c \in Collections |->
                     IF c = "attendance" THEN docs ELSE {}]
          /\ ls = [c \in Collections |->
                     IF c = "attendance"
                     THEN saveToLocalStorage(<<>>, data, "update") ELSE <<>>]
          /\ pendingQueue =
                addToPendingQueue(<<>>, Op("updateAttendanceRecord", data,
                                           "attendance"))

\* a remote call of the replay rejected
ReplayRejected == \E p \in 1..Len(drain) : SyncOpFailed(p, "reject", FALSE)

ReplayNext ==
    \/ InitTimerFired
    \/ Poll
    \/ ReplayResolved
    \/ ReplayRejected

ReplaySpec == ReplayInit /\ [][ReplayNext]_vars

\* ------------------------------------------------ saveToLocalStorage on its own

\* the records a caller hands to saveToLocalStorage
PutInputs(collection) == LocalInputs(collection) \cup RemoteInputs(collection)

\* a record of a collection the call is not about
SampleRecord(collection) ==
    CASE collection = "students" -> Rec(NA, "S1", NA, NA, NA, "a", "F")
      [] collection = "attendance" -> Rec(NA, "S1", "D1", "E1", NA, "a", "F")
      [] collection = "events" -> Rec(NA, NA, NA, NA, "E1", NA, "F")

\* The arguments of one call, with the localStorage it finds: the record set
\* of the collection, its legacy key (students, attendance), the other record
\* sets and the pending queue.
PutInit ==
    /\ navOnline = FALSE
    /\ netEvents = <<>>
    /\ isOnline = FALSE
    /\ settleTimers = 0
    /\ initTimer = TRUE
    /\ fbReady \in BOOLEAN
    /\ syncInProgress = FALSE
    /\ fb = [c \in Collections |-> {}]
    /\ calls = {}
    /\ late = {}
    /\ drain = <<>>
    /\ remoteOk = {}
    /\ result = NoResult
    /\ storageThrew = FALSE
    /\ envSteps = 0
    /\ \E c \in Collections :
          \E items \in BoundedSeq(LocalInputs(c), MaxMerge),
             data \in PutInputs(c), operation \in {"add", "update", "delete"},
             others \in BOOLEAN, legacy \in BOOLEAN :
             /\ ls = [k \in Collections |->
                        IF k = c THEN items
                        ELSE IF others THEN <<SampleRecord(k)>> ELSE <<>>]
             /\ pendingQueue =
                   IF others
                   THEN addToPendingQueue(<<>>, Op("addStudent",
                                                   SampleRecord("students"),
                                                   "students"))
                   ELSE <<>>
             /\ fetch = [pc |-> "put", collection |-> c, data |-> data,
                         operation |-> operation,
                         legacy |-> IF legacy /\ c # "events" THEN items
                                    ELSE <<>>]

\* what a call of saveToLocalStorage has done: the record set before and after
PutResult(before, after, fault, retried) ==
    [of |-> "saveToLocalStorage", kind |-> fetch.operation,
     collection |-> fetch.collection, data |-> fetch.data,
     before |-> before, value |-> after, fault |-> fault,
     retried |-> retried, threw |-> FALSE]

PutFrame ==
    UNCHANGED <<navOnline, netEvents, isOnline, settleTimers, initTimer,
                fbReady, syncInProgress, pendingQueue, fb, calls, late,
                drain, remoteOk, storageThrew, envSteps>>

\* saveToLocalStorage(collection, data, operation), every setItem succeeding
saveToLocalStorageCall ==
    /\ fetch.pc = "put"
    /\ ls' = [ls EXCEPT ![fetch.collection] =
                 saveToLocalStorage(@, fetch.data, fetch.operation)]
    /\ result' = PutResult(ls[fetch.collection], ls'[fetch.collection],
                           FALSE, FALSE)
    /\ fetch' = NoFetch
    /\ PutFrame

\* a faulty variant: the whole of localStorage's record sets is cleared
lsQuotaClearsAll(L, collection, data, legacy, retried) ==
    [c \in Collections |-> IF c = collection /\ retried THEN <<data>> ELSE <<>>]

\* The catch of saveToLocalStorage: the collection's key is removed and
\* [data] is written under it (retried); when that write throws as well the
\* key stays removed and reads fall back to the legacy key.
lsAfterQuota(L, collection, data, legacy, retried) ==
    [L EXCEPT ![collection] = IF retried THEN <<data>> ELSE legacy]

\* saveToLocalStorage with a setItem that throws (quota, storage disabled)
saveToLocalStorageFull(retried) ==
    /\ fetch.pc = "put"
    /\ ls' = lsAfterQuota(ls, fetch.collection, fetch.data, fetch.legacy,
                          retried)
    /\ result' = PutResult(ls[fetch.collection], ls'[fetch.collection],
                           TRUE, retried)
    /\ fetch' = NoFetch
    /\ PutFrame

PutNext ==
    \/ saveToLocalStorageCall
    \/ \E retried \in BOOLEAN : saveToLocalStorageFull(retried)

PutSpec == PutInit /\ [][PutNext]_vars

\* --------------------------------------------- clearAllData and the drain

ClearAll ==
    \E fetched \in BOOLEAN, cleared \in BOOLEAN :
       \E sdocs \in Orders(fb["students"]) \cup {<<>>},
          adocs \in Orders(fb["attendance"]) \cup {<<>>} :
          /\ fetched => /\ sdocs \in Orders(fb["students"])
                        /\ adocs \in Orders(fb["attendance"])
          /\ clearAllData(fetched, sdocs, adocs, cleared)

\* the replay of an operation the switch has no case for
ReplaySkipped == \E p \in 1..Len(drain) : SyncOpSkipped(p, FALSE)

\* attendance records and students written, clearAllData, connectivity
\* changes, every drain trigger, and a remote store that accepts every call
\* made while the network is up
NextClear ==
    \/ \E s \in StudentIds, v \in Vals : addStudent(s, v)
    \/ \E s \in StudentIds, d \in Dates, e \in EventNames, v \in Vals :
          addAttendanceRecord(s, d, e, v)
    \/ ClearAll
    \/ NetChange
    \/ NetEventDelivered
    \/ SettleTimerFired
    \/ Poll
    \/ InitTimerFired
    \/ WriteResolved
    \/ ReplayResolved
    \/ ReplaySkipped

\* events are delivered, timers fire, the interval keeps firing, the remote
\* store answers and a replay that calls nothing returns
SpecClear ==
    /\ Init
    /\ [][NextClear]_vars
    /\ WF_vars(NetEventDelivered)
    /\ WF_vars(SettleTimerFired)
    /\ WF_vars(Poll)
    /\ WF_vars(InitTimerFired)
    /\ WF_vars(WriteResolved)
    /\ WF_vars(ReplayResolved)
    /\ WF_vars(ReplaySkipped)

\* ------------------------------------------- updateStudent and the drain

\* the values updateStudent writes
UpdateVals == {"b", "c"}

\* updateStudent(studentId, studentData) up to the await of the remote call
updateStudent(studentId, val) ==
    /\ CanWrite
    /\ LET data == Rec(NA, studentId, NA, NA, NA, val, NA)
       IN executeWithOfflineSupport(ls, "updateStudent", data, "students", data)
    /\ WriteFrame

\* The firebaseOperation of updateStudent resolves: getStudents (the read,
\* with the records it saves), the first student with the studentId, the
\* update of the document with that student's id.  A student without an id,
\* or with the id of no document, makes the call reject instead.
updateStudentResolved(c) ==
    /\ c \in calls
    /\ c.type = "updateStudent"
    /\ navOnline
    /\ \E docs \in (IF isOnline THEN Orders(fb["students"]) ELSE {<<>>}) :
          LET local == getFromLocalStorage("students")
              students == IF isOnline THEN mergeData(local, docs, "studentId")
                          ELSE local
              i == FindIndex(students,
                             LAMBDA st : st.studentId = c.data.studentId)
              target == IF i = 0 THEN {} ELSE ById(fb["students"], students[i].id)
              updateData == [c.data EXCEPT !.studentId = NA]
          IN /\ i # 0 => target # {}
             /\ fb' \in (IF i = 0 THEN {fb}
                         ELSE Updated(fb, "students", target, updateData))
             /\ ls' = [ls EXCEPT !["students"] =
                          markAsSynced(
                             IF isOnline
                             THEN saveFetched(@, "students", local, docs)
                             ELSE @,
                             c.data)]
             /\ Stored(ls') <= MaxRecords
    /\ calls' = calls \ {c}
    /\ result' = RemoteResult(c.type)
    /\ UNCHANGED <<navOnline, netEvents, isOnline, settleTimers, initTimer,
                   fbReady, syncInProgress, pendingQueue, late, drain,
                   remoteOk, fetch, storageThrew, envSteps>>

\* the state after construction over a localStorage that holds one student
\* saved from its remote document
UpdateInit ==
    /\ navOnline \in BOOLEAN
    /\ netEvents = <<>>
    /\ isOnline = navOnline
    /\ settleTimers = 0
    /\ initTimer = TRUE
    /\ fbReady = TRUE
    /\ syncInProgress = FALSE
    /\ pendingQueue = <<>>
    /\ calls = {}
    /\ late = {}
    /\ drain = <<>>
    /\ remoteOk = {}
    /\ fetch = NoFetch
    /\ result = NoResult
    /\ storageThrew = FALSE
    /\ envSteps = 0
    /\ \E s \in StudentIds, v \in Vals :
          LET student == Rec("d1", s, NA, NA, NA, v, "T")
          IN /\ ls = [c \in Collections |->
                        IF c = "students" THEN <<student>> ELSE <<>>]
             /\ fb = [c \in Collections |->
                        IF c = "students" THEN {DocOf(student)} ELSE {}]

UpdateResolved == \E c \in calls : updateStudentResolved(c)

\* the remote call rejected, or was not heard of within the deadline
UpdateFailed == \E c \in calls : ExecuteRejected(c)

\* a student updated online and offline, the answers of the remote store,
\* connectivity changes, every drain trigger and the replays of the drain
NextUpdate ==
    \/ \E s \in StudentIds, v \in UpdateVals : updateStudent(s, v)
    \/ UpdateResolved
    \/ UpdateFailed
    \/ NetChange
    \/ NetEventDelivered
    \/ SettleTimerFired
    \/ Poll
    \/ InitTimerFired
    \/ ReplayResolved
    \/ ReplayRejected

SpecUpdate == UpdateInit /\ [][NextUpdate]_vars

\* --------------------------------------- a student deleted while offline

\* deleteStudent called while the connectivity flag is offline
OfflineDelete ==
    /\ ~isOnline
    /\ \E s \in StudentIds : deleteStudent(s, <<>>, FALSE)

\* a cached student deleted offline, reads of the students, connectivity
\* changes, every drain trigger and the replays of the drain
NextDelete ==
    \/ OfflineDelete
    \/ FetchStart("students")
    \/ FetchResolved
    \/ FetchRejected
    \/ NetChange
    \/ NetEventDelivered
    \/ SettleTimerFired
    \/ Poll
    \/ InitTimerFired
    \/ ReplayResolved
    \/ ReplayRejected

SpecDelete == UpdateInit /\ [][NextDelete]_vars

\* ------------------------------- reads over a store other devices wrote

\* the state after construction over an empty localStorage, the remote store
\* holding students and attendance records written elsewhere
RemoteInit ==
    /\ navOnline \in BOOLEAN
    /\ netEvents = <<>>
    /\ isOnline = navOnline
    /\ settleTimers = 0
    /\ initTimer = TRUE
    /\ fbReady = TRUE
    /\ syncInProgress = FALSE
    /\ ls = [c \in Collections |-> <<>>]
    /\ pendingQueue = <<>>
    /\ calls = {}
    /\ late = {}
    /\ drain = <<>>
    /\ remoteOk = {}
    /\ fetch = NoFetch
    /\ result = NoResult
    /\ storageThrew = FALSE
    /\ envSteps = 0
    /\ \E sdocs \in SUBSET RemoteInputs("students"),
          adocs \in SUBSET RemoteInputs("attendance") :
          /\ Cardinality(sdocs \cup adocs) <= MaxDocs
          /\ \A d, e \in sdocs \cup adocs : d # e => d.id # e.id
          /\ fb = [c \in Collections |->
                     CASE c = "students" -> sdocs
                       [] c = "attendance" -> adocs
                       [] OTHER -> {}]

\* reads of the students and of the attendance records, connectivity
\* changes, every drain trigger and the replays of the drain
NextRemote ==
    \/ \E c \in {"students", "attendance"} : FetchStart(c)
    \/ FetchResolved
    \/ FetchRejected
    \/ NetChange
    \/ NetEventDelivered
    \/ SettleTimerFired
    \/ Poll
    \/ InitTimerFired
    \/ ReplayResolved
    \/ ReplayRejected

SpecRemote == RemoteInit /\ [][NextRemote]_vars

\* ------------------------- attendance added online, the remote call late

\* addAttendanceRecord called online for a key the local set does not hold
AddOnline ==
    /\ isOnline /\ fbReady
    /\ \E s \in StudentIds, d \in Dates, e \in EventInputs, v \in Vals :
          /\ \A i \in 1..Len(ls["attendance"]) :
                attendanceKey(ls["attendance"][i])
                   # attendanceKey(Rec(NA, s, d, e, NA, v, NA))
          /\ addAttendanceRecord(s, d, e, v)

\* the deadline of the write passes; its remote call is still under way
AddTimedOut == \E c \in calls : ExecuteTimedOut(c, TRUE)

\* the remote call of a write completes after its deadline
LateAddDone == \E l \in late : LateExecuteDone(l)

\* attendance added online with every remote call of a write answering
\* after the deadline, connectivity changes, every drain trigger and the
\* replays of the drain
NextLate ==
    \/ AddOnline
    \/ AddTimedOut
    \/ LateAddDone
    \/ NetChange
    \/ NetEventDelivered
    \/ SettleTimerFired
    \/ Poll
    \/ InitTimerFired
    \/ ReplayResolved
    \/ ReplayRejected

SpecLate == Init /\ [][NextLate]_vars

\* ---------------------------------------------------- deleteEvent on its own

\* the event names of the page
EventNames2 == {"E1", "E2"}

\* the ids deleteEvent is called with: of a document, or of none
EventIds == {"d1", "dX"}

\* { eventId, eventName } as deleteEvent queues it
eventOperation(eventId, eventName) ==
    [type |-> "deleteEvent", collection |-> NA,
     data |-> [eventId |-> eventId, eventName |-> eventName]]

\* The arguments of one call, with what it finds: at most one event, stored
\* locally, remotely or both under the id d1; local attendance records of
\* distinct keys; at most one remote attendance record.
DeleteEventInit ==
    /\ navOnline \in BOOLEAN
    /\ netEvents = <<>>
    /\ isOnline = navOnline
    /\ settleTimers = 0
    /\ initTimer = TRUE
    /\ fbReady = TRUE
    /\ syncInProgress = FALSE
    /\ pendingQueue = <<>>
    /\ calls = {}
    /\ late = {}
    /\ drain = <<>>
    /\ remoteOk = {}
    /\ result = NoResult
    /\ storageThrew = FALSE
    /\ envSteps = 0
    /\ \E events \in BoundedSeq({Rec("d1", NA, NA, NA, n, NA, "T") :
                                    n \in EventNames2}, 1),
          edocs \in SUBSET {Rec("d1", NA, NA, NA, n, NA, NA) : n \in EventNames2},
          records \in BoundedSeq({Rec(NA, st, d, e, NA, "a", "F") :
                                     st \in StudentIds, d \in Dates,
                                     e \in EventNames2}, MaxRecords),
          adocs \in SUBSET {Rec("d2", st, d, e, NA, "a", NA) :
                               st \in StudentIds, d \in Dates,
                               e \in EventNames2},
          eventId \in EventIds, eventNameParam \in EventNames2 \cup {NA} :
          /\ Cardinality(edocs) <= 1 /\ Cardinality(adocs) <= 1
          /\ \A i, j \in 1..Len(records) :
                i # j => attendanceKey(records[i]) # attendanceKey(records[j])
          /\ ls = [c \in Collections |->
                     CASE c = "events" -> events
                       [] c = "attendance" -> records
                       [] OTHER -> <<>>]
          /\ fb = [c \in Collections |->
                     CASE c = "events" -> edocs
                       [] c = "attendance" -> adocs
                       [] OTHER -> {}]
          /\ fetch = [pc |-> "deleteEvent", eventId |-> eventId,
                      eventNameParam |-> eventNameParam]

\* the event name deleteEvent works with.  found: getEvent's query answered.
deleteEventName(eventId, eventNameParam, found) ==
    LET localEvents == getFromLocalStorage("events")
        i == FindIndex(localEvents, LAMBDA e : e.id = eventId)
        remote == IF i = 0 /\ isOnline /\ fbReady /\ found
                  THEN ById(fb["events"], eventId) ELSE {}
        named == IF i # 0 THEN localEvents[i].name
                 ELSE IF remote # {} THEN (CHOOSE e \in remote : TRUE).name
                 ELSE eventNameParam
        localRecords == getFromLocalStorage("attendance")
        j == FindIndex(localRecords, LAMBDA r : Truthy(r.event))
    IN IF Truthy(named) THEN named
       ELSE IF j # 0 THEN localRecords[j].event
       ELSE NA

\* deleteEvent(eventId, eventNameParam), the remote calls answering at once.
\* found: getEvent's query answered; failed: a remote delete rejected.
deleteEvent(found, failed) ==
    /\ fetch.pc = "deleteEvent"
    /\ LET eventId == fetch.eventId
           eventName == deleteEventName(eventId, fetch.eventNameParam, found)
           online == isOnline /\ fbReady
           filtered ==
               [ls EXCEPT
                  !["attendance"] = WithoutEvent(@, eventName),
                  !["events"] = SelectSeq(@, LAMBDA e : /\ e.id # eventId
                                                       /\ e.name # eventName)]
           docs == ByEvent(fb["attendance"], eventName)
       IN IF ~Truthy(eventName)
          THEN /\ ~failed
               /\ pendingQueue' = addToPendingQueue(pendingQueue,
                                      eventOperation(eventId, NA))
               /\ UNCHANGED <<ls, fb>>
          ELSE IF ~online
          THEN /\ ~failed /\ ~found
               /\ ls' = filtered
               /\ pendingQueue' = addToPendingQueue(pendingQueue,
                                      eventOperation(eventId, eventName))
               /\ UNCHANGED fb
          ELSE /\ navOnline
               /\ \E order \in Orders(docs) :
                     ls' = [filtered EXCEPT !["attendance"] =
                               saveFetched(@, "attendance", <<>>, order)]
               /\ IF failed
                  THEN /\ pendingQueue' =
                             addToPendingQueue(pendingQueue,
                                eventOperation(eventId, eventName))
                       /\ UNCHANGED fb
                  ELSE /\ fb' = [fb EXCEPT
                                   !["attendance"] = @ \ docs,
                                   !["events"] = @ \ ById(@, eventId)]
                       /\ UNCHANGED pendingQueue
    /\ result' = [of |-> "deleteEvent", kind |-> "done", value |-> <<>>]
    /\ fetch' = NoFetch
    /\ UNCHANGED <<navOnline, netEvents, isOnline, settleTimers, initTimer,
                   fbReady, syncInProgress, calls, late, drain, remoteOk,
                   storageThrew, envSteps>>

DeleteEventNext == \E found \in BOOLEAN, failed \in BOOLEAN : deleteEvent(found, failed)

DeleteEventSpec == DeleteEventInit /\ [][DeleteEventNext]_vars

\* ------------------------------------------------------------------ properties

WriteTypes ==
    {"addStudent", "addAttendanceRecord", "createEvent", "deleteStudent",
     "updateAttendanceRecord"}

\* the local record set shows the write: a record holds every field of the
\* data (add, update), or no record matches the data any more (delete)
LocallyApplied(L, type, data, collection) ==
    IF lsOperation(type) = "delete"
    THEN \A i \in 1..Len(L[collection]) : ~lsMatch(L[collection][i], data)
    ELSE \E i \in 1..Len(L[collection]) :
            \A f \in Fields : data[f] # NA => L[collection][i][f] = data[f]

\* the step is the catch branch of executeWithOfflineSupport
CatchStep == calls' # calls /\ calls' \subseteq calls /\ result'.of \in WriteTypes
                /\ result'.kind = "local"

\* the step is a call of executeWithOfflineSupport that found the engine offline
OfflineStep == calls' = calls /\ result'.of \in WriteTypes /\ result'.kind = "local"

KeySpec(collection, r) ==
    CASE collection = "students" -> Str(r.studentId)
      [] collection = "attendance" ->
            Str(r.studentId) \o "_" \o Str(r.date) \o "_" \o Str(r.event)
      [] collection = "events" ->
            IF Truthy(r.id) THEN "id_" \o r.id ELSE "name_" \o Str(r.name)

\* the records of a sequence that have the KeySpec key of r
WithKey(collection, records, r) ==
    {i \in 1..Len(records) :
        KeySpec(collection, records[i]) = KeySpec(collection, r)}

\* the step ends a drain pass with the flag released
PassEnds == drain # <<>> /\ drain' = <<>> /\ ~syncInProgress'

\* C2: when a drain pass ends, no local record that has the key of an add the
\* pass has replayed with the remote store's confirmation is flagged unsynced.
C2_DrainLeavesNoUnsynced ==
    [][PassEnds =>
         \A i \in 1..Len(drain[1].queue) :
            LET op == drain[1].queue[i]
            IN (op.syncId \in remoteOk' /\ lsOperation(op.type) = "add") =>
                  \A j \in WithKey(op.collection, ls'[op.collection], op.data) :
                     ls'[op.collection][j].synced # "F"]_vars

\* C3: an operation leaves the pending queue only in a step by which the
\* running drain has the remote store's confirmation of its replay.
C3_RemovedOnlyConfirmed ==
    [][\A id \in SyncIdsOf(pendingQueue) \ SyncIdsOf(pendingQueue') :
          id \in remoteOk']_vars

\* every step of the environment so far was an add of one and the same
\* record made offline, but for the offline read that has just returned
AddsThenOfflineRead ==
    /\ result.of = "get" /\ result.kind = "local"
    /\ ~navOnline /\ ~isOnline
    /\ Len(pendingQueue) + 1 = envSteps
    /\ pendingQueue # <<>>
    /\ \A i \in 1..Len(pendingQueue) :
          /\ lsOperation(pendingQueue[i].type) = "add"
          /\ pendingQueue[i].collection = result.collection
          /\ pendingQueue[i].data = pendingQueue[1].data

\* C4: after one or more offline adds of a record r, an offline read of the
\* collection returns exactly one record with r's key.
C4_IdempotentAdd ==
    AddsThenOfflineRead =>
        Cardinality(WithKey(result.collection, result.value,
                            pendingQueue[1].data)) = 1

\* C5: no two records of a local record set have the same KeySpec key.
C5_LocalKeysUnique ==
    \A c \in Collections :
        \A i, j \in 1..Len(ls[c]) :
            i # j => KeySpec(c, ls[c][i]) # KeySpec(c, ls[c][j])

\* a merge has just returned
Merged == result.of = "get" /\ result.kind = "merged"

KeysOf(collection, records) ==
    {KeySpec(collection, records[i]) : i \in 1..Len(records)}

\* C6: the result of a merge has no two records with the same KeySpec key, and
\* a record of the result whose key both sides have is a record of the local
\* side.
C6_MergeLocalWins ==
    Merged =>
        LET c == result.collection
            v == result.value
        IN /\ \A i, j \in 1..Len(v) :
                 i # j => KeySpec(c, v[i]) # KeySpec(c, v[j])
           /\ \A i \in 1..Len(v) :
                 (KeySpec(c, v[i]) \in KeysOf(c, result.local)
                                      \cap KeysOf(c, result.remote))
                    => v[i] \in Range(result.local)

\* a merge of two sides that share a key has returned the local record
C6_Witness ==
    /\ Merged
    /\ result.collection = "attendance"
    /\ Len(result.local) = 1 /\ Len(result.remote) = 1
    /\ KeySpec("attendance", result.local[1])
          = KeySpec("attendance", result.remote[1])
    /\ result.local[1] # result.remote[1]
    /\ result.value = result.local

\* C7: every KeySpec key of a record of either side is the key of a record of
\* the merge a read returns.
C7_MergeKeepsKeys ==
    Merged =>
        KeysOf(result.collection, result.local)
            \cup KeysOf(result.collection, result.remote)
            \subseteq KeysOf(result.collection, result.value)

\* the queue of the step's end is the queue of its start with operations
\* appended
Extended == /\ Len(pendingQueue') >= Len(pendingQueue)
            /\ SubSeq(pendingQueue', 1, Len(pendingQueue)) = pendingQueue

\* C8: there is never more than one drain pass; a call of syncPendingData that
\* finds a pass running starts no pass, changes nothing in the remote store,
\* starts no remote call and removes nothing from the pending queue (the
\* reconciliation made by the same timer may append to it).
C8_OneDrain ==
    [][/\ Len(drain') <= 1
       /\ (syncInProgress /\ result' = SyncRefused) =>
             /\ drain' = drain /\ fb' = fb /\ calls' = calls /\ late' = late
             /\ Extended
             /\ settleTimers' = settleTimers => pendingQueue' = pendingQueue]_vars

\* a drain request has just been refused while a pass is running
C8_Witness ==
    /\ result = SyncRefused
    /\ Len(drain) = 1
    /\ syncInProgress

\* C9: whenever no drain pass is running syncInProgress is false.
C9_FlagReleased == drain = <<>> => ~syncInProgress

\* C10 as written: no step taken while a drain pass is running makes the
\* pending queue longer.
C10_NeverLonger ==
    [][drain # <<>> => Len(pendingQueue') <= Len(pendingQueue)]_vars

\* C10: while a drain pass is running the pending queue grows only by
\* operations appended to it; the batch write that ends the pass leaves it no
\* longer than it was when the pass started.
C10_PassEndsNoLonger ==
    [][drain # <<>> =>
         IF drain' = <<>>
         THEN Len(pendingQueue') <= Len(drain[1].queue)
         ELSE Len(pendingQueue') > Len(pendingQueue) => Extended]_vars

\* a pass is running and the queue has outgrown the pass's snapshot
C10_Witness ==
    /\ Len(drain) = 1
    /\ Len(pendingQueue) > Len(drain[1].queue)

\* what kind of value the last step returned, "none" when it returned nothing
ResultKind(r) == IF r.of = "none" THEN "none" ELSE r.kind

\* the step is a data-access call that went through executeWithOfflineSupport
\* and returned the local record set without waiting for the remote store
QueuedAtOnce ==
    /\ envSteps' # envSteps
    /\ result'.of \in WriteTypes
    /\ ResultKind(result') = "local"

\* the step ends a call of executeWithOfflineSupport whose remote call did not
\* resolve: it rejected, or the deadline passed
FailedStep ==
    /\ calls' # calls /\ calls' \subseteq calls
    /\ ResultKind(result') # "remote"

\* the queue of the step's end is the queue of its start and one operation
\* {type, data, collection}
Enqueued(type, data, collection) ==
    /\ Len(pendingQueue') = Len(pendingQueue) + 1
    /\ Extended
    /\ LET op == pendingQueue'[Len(pendingQueue')]
       IN op.type = type /\ op.data = data /\ op.collection = collection

\* C11: the step in which the deadline of a write's remote call passes
\* appends exactly one operation {type, data, collection} of the write to the
\* pending queue and returns the local record set; and a write whose remote
\* call never returns does get to that step: no call of
\* executeWithOfflineSupport waits forever.
C11_TimeoutCompletes ==
    /\ [][FailedStep =>
            \E c \in calls \ calls' :
               /\ Enqueued(c.type, c.data, c.collection)
               /\ result' = LocalResult(c.type, ls'[c.collection])]_vars
    /\ (calls # {}) ~> (calls = {} /\ ResultKind(result) = "local")

\* a student was added online, the remote call never returned, and the call
\* has returned the local set with the student, the operation queued
C11_Witness ==
    /\ isOnline /\ fbReady
    /\ calls = {} /\ late = {}
    /\ result.of = "addStudent" /\ ResultKind(result) = "local"
    /\ Len(result.value) = 1
    /\ fb["students"] = {}
    /\ Len(pendingQueue) = 1 /\ pendingQueue[1].type = "addStudent"

\* the pass that ends in this step has replayed only additions of attendance
\* records with a full key, and the remote store has confirmed each of them
AddsConfirmed ==
    /\ PassEnds
    /\ \A i \in 1..Len(drain[1].queue) :
          LET op == drain[1].queue[i]
          IN /\ op.type = "addAttendanceRecord"
             /\ Truthy(op.data.studentId) /\ Truthy(op.data.date)
             /\ Truthy(op.data.event)
             /\ op.syncId \in remoteOk'

\* C12: an attendance record added offline to a local set that has at most
\* one record with its key is afterwards the one local record with that key,
\* and one more operation is queued; when a pass that has replayed
\* such additions ends with each of them confirmed, the pending queue is
\* empty and the remote store holds exactly one record with the key of each,
\* whether the pass was the first to replay the record or a later one.
C12_AddReplayedOnce ==
    [][/\ (QueuedAtOnce /\ result'.of = "addAttendanceRecord") =>
             /\ Len(pendingQueue') = Len(pendingQueue) + 1
             /\ LET data == pendingQueue'[Len(pendingQueue')].data
                IN Cardinality(WithKey("attendance", ls["attendance"],
                                       data)) <= 1
                   => Cardinality(WithKey("attendance", ls'["attendance"],
                                          data)) = 1
       /\ AddsConfirmed =>
             /\ pendingQueue' = <<>>
             /\ \A i \in 1..Len(drain[1].queue) :
                   Cardinality(ByKey(fb'["attendance"],
                                     drain[1].queue[i].data)) = 1]_vars

\* a second pass has replayed the record: the operation reconciliation queued
\* for it is confirmed, the queue is empty and the remote store holds the one
\* record the first pass created
C12_Witness ==
    /\ drain = <<>> /\ ~syncInProgress
    /\ pendingQueue = <<>>
    /\ remoteOk = {"q2"}
    /\ Len(ls["attendance"]) = 1
    /\ Cardinality(fb["attendance"]) = 1
    /\ \E d \in fb["attendance"] :
          KeySpec("attendance", d) = KeySpec("attendance", ls["attendance"][1])

\* the step replays a delete-by-event with the remote store's confirmation and
\* ends the pass
DeleteReplayed ==
    /\ PassEnds
    /\ CurrentOp(1).type = "deleteAttendanceRecordsByEvent"
    /\ CurrentOp(1).syncId \in remoteOk'

\* C13: deleteAttendanceRecordsByEvent called offline appends exactly one
\* operation that carries the event name; when the pass that replays it as its
\* last operation ends with the replay confirmed, the remote store has no
\* attendance record of the event and neither has the local record set.
C13_DeleteByEventClears ==
    [][/\ (ResultKind(result') = "offline") =>
             /\ Len(pendingQueue') = Len(pendingQueue) + 1
             /\ Extended
             /\ pendingQueue'[Len(pendingQueue')].type = result'.of
             /\ Truthy(pendingQueue'[Len(pendingQueue')].data.eventName)
       /\ DeleteReplayed =>
             LET e == CurrentOp(1).data.eventName
             IN /\ ByEvent(fb'["attendance"], e) = {}
                /\ WithoutEvent(ls'["attendance"], e) = ls'["attendance"]]_vars

\* C14: while the connectivity flag is offline no step starts a remote call,
\* and a write made through executeWithOfflineSupport leaves the remote store
\* alone and appends exactly one operation to the pending queue: its type is
\* the write's, its data the record the local set now shows, its collection
\* the one whose record set the call returns.
C14_OfflineQueues ==
    [][~isOnline =>
         /\ calls' \subseteq calls
         /\ QueuedAtOnce =>
               /\ fb' = fb
               /\ Len(pendingQueue') = Len(pendingQueue) + 1
               /\ Extended
               /\ LET op == pendingQueue'[Len(pendingQueue')]
                  IN /\ op.type = result'.of
                     /\ op.collection \in Collections
                     /\ result'.value = ls'[op.collection]
                     /\ LocallyApplied(ls', op.type, op.data, op.collection)]_vars

\* a student was added while the flag was offline: one operation is queued,
\* no remote call was started
C14_Witness ==
    /\ ~isOnline
    /\ result.of = "addStudent" /\ ResultKind(result) = "local"
    /\ calls = {} /\ late = {}
    /\ Len(pendingQueue) = 1
    /\ pendingQueue[1].type = "addStudent"
    /\ pendingQueue[1].collection = "students"

\* the step ends a call of executeWithOfflineSupport whose remote call resolved
ResolvedStep ==
    /\ calls' # calls /\ calls' \subseteq calls
    /\ ResultKind(result') = "remote"

\* C15: the step in which the remote call of an online write resolves queues
\* nothing and leaves every local record that has the written key flagged
\* synced.
C15_SuccessMarksSynced ==
    [][ResolvedStep =>
         /\ pendingQueue' = pendingQueue
         /\ \A c \in calls \ calls' :
               lsOperation(c.type) # "delete" =>
                  \A j \in WithKey(c.collection, ls'[c.collection], c.data) :
                     ls'[c.collection][j].synced = "T"]_vars

\* C16: the step in which the remote call of an online write rejects or times
\* out returns the local record set of the collection, appends exactly one
\* operation {type, data, collection} of the write to the pending queue and
\* changes neither the local record sets nor the remote store.
C16_FailureQueues ==
    [][FailedStep =>
         \E c \in calls \ calls' :
            /\ calls' = calls \ {c}
            /\ result' = LocalResult(c.type, ls[c.collection])
            /\ Enqueued(c.type, c.data, c.collection)
            /\ ls' = ls /\ fb' = fb]_vars

\* the remote call of an attendance write has passed its deadline and is still
\* running: the write has returned the local set and is queued
C16_Witness ==
    /\ result.of = "addAttendanceRecord" /\ ResultKind(result) = "local"
    /\ \E l \in late : l.kind = "exec" /\ l.call.type = "addAttendanceRecord"
    /\ calls = {}
    /\ pendingQueue # <<>>
    /\ pendingQueue[Len(pendingQueue)].type = "addAttendanceRecord"

\* the 'offlineStatusChanged' events the step has dispatched
Notifications(r) == IF r.of = "triggerStatusUpdate" THEN r.count ELSE 0

\* C17: a step dispatches one connectivity notification when it changes the
\* connectivity flag and none when it leaves the flag as it is.
C17_NotifiesOncePerChange ==
    [][Notifications(result') = IF isOnline' # isOnline THEN 1 ELSE 0]_vars

\* C18: every step that turns the connectivity flag from offline to online
\* arms the settle timer, whose callback drains the queue and reconciles; a
\* step that turns the flag offline starts no remote call.
C18_OnlineSchedules ==
    [][/\ (~isOnline /\ isOnline') => settleTimers' = settleTimers + 1
       /\ (isOnline /\ ~isOnline') =>
             /\ calls' = calls /\ late' = late /\ drain' = drain
             /\ fetch' = fetch /\ fb' = fb]_vars

\* what a record says, its document id and its synced flag apart
Content(r) == [f \in Fields \ {"id", "synced"} |-> r[f]]

\* the local record set and the remote store hold the same records
Agree ==
    \A c \in Collections :
        {Content(ls[c][i]) : i \in 1..Len(ls[c])} = {Content(d) : d \in fb[c]}

\* C19: if from some time on the network is up, the connectivity flag is
\* online and the remote store is available, then from some time on the
\* pending queue is empty and the local record sets and the remote store
\* hold the same records.
C19_EventuallyConsistent ==
    <>[](navOnline /\ isOnline /\ fbReady) => <>[](pendingQueue = <<>> /\ Agree)

\* C20: no call of executeWithOfflineSupport, no drain pass and no read waits
\* forever for a remote store that does not answer.
C20_NothingWaitsForever ==
    /\ (calls # {}) ~> (calls = {})
    /\ (drain # <<>>) ~> (drain = <<>>)
    /\ (fetch.pc = "wait") ~> (fetch.pc = "idle")

\* the step is the callback of handleOnline's timer with the flag online: a
\* drain request and then a reconciliation
ReconcileStep == settleTimers' < settleTimers /\ isOnline

\* an operation of the queue has the collection and the KeySpec key of r
Represented(queue, collection, r) ==
    \E i \in 1..Len(queue) :
        /\ queue[i].collection = collection
        /\ KeySpec(collection, queue[i].data) = KeySpec(collection, r)

\* the unsynced records of a local collection no queued operation stands for
Unrepresented(collection) ==
    {i \in 1..Len(ls[collection]) :
        /\ ls[collection][i].synced = "F"
        /\ ~Represented(pendingQueue, collection, ls[collection][i])}

\* C21: a reconciliation appends to the pending queue one operation for each
\* unsynced local record that no queued operation of its collection and key
\* stands for, and nothing else; afterwards every unsynced record of every
\* local collection has such an operation in the queue.
C21_ReconcileQueuesUnsynced ==
    [][ReconcileStep =>
         /\ Extended
         /\ Len(pendingQueue') - Len(pendingQueue)
               = Cardinality(Unrepresented("students"))
                    + Cardinality(Unrepresented("attendance"))
                    + Cardinality(Unrepresented("events"))
         /\ \A k \in (Len(pendingQueue) + 1)..Len(pendingQueue') :
               \E c \in Collections : \E i \in Unrepresented(c) :
                  /\ pendingQueue'[k].collection = c
                  /\ pendingQueue'[k].data = ls[c][i]
         /\ \A c \in Collections : \A i \in 1..Len(ls[c]) :
               ls[c][i].synced = "F" => Represented(pendingQueue', c, ls[c][i])]_vars

\* the syncIds of the operations of a queue, in the queue's order
SyncIdSeq(queue) == [i \in 1..Len(queue) |-> queue[i].syncId]

\* C22: a pass goes through its snapshot one operation after the other,
\* whatever the outcome of each replay, and ends only after the last one; the
\* operations of the snapshot the remote store has not confirmed in the pass
\* are in the pending queue when the pass ends, in the order they had.
C22_DrainInOrder ==
    [][drain # <<>> =>
         /\ (drain' # <<>> /\ drain'[1].idx # drain[1].idx) =>
               /\ drain'[1].idx = drain[1].idx + 1
               /\ SyncIdSeq(drain'[1].queue) = SyncIdSeq(drain[1].queue)
         /\ drain' = <<>> => drain[1].idx = Len(drain[1].queue)
         /\ PassEnds =>
               LET left == SyncIdsOf(drain[1].queue) \ remoteOk'
               IN SyncIdSeq(SelectSeq(pendingQueue',
                                      LAMBDA op : op.syncId \in left))
                     = SyncIdSeq(SelectSeq(drain[1].queue,
                                           LAMBDA op : op.syncId \in left))]_vars

\* C23: when an online read returns, every document of the query whose
\* KeySpec key no local record had is in the local record set, and the keys of
\* the local record set, which an offline read made next returns, are the keys
\* of the records the online read returns.
C23_FetchMakesLocalCapable ==
    [][ResultKind(result') = "merged" =>
         LET c == result'.collection
         IN /\ \A i \in 1..Len(result'.remote) :
                  KeySpec(c, result'.remote[i]) \in KeysOf(c, ls[c])
                                                     \cup KeysOf(c, ls'[c])
            /\ KeysOf(c, ls'[c]) = KeysOf(c, result'.value)]_vars

\* the step removes records from a local record set
DeleteStep ==
    \/ result'.of \in {"deleteStudent", "deleteAttendanceRecordsByEvent"}
    \/ \E c \in calls' \ calls : lsOperation(c.type) = "delete"

\* C24: a step that deletes no local record leaves every local record that
\* has a remote id where it is, with the id it has.
C24_RemoteIdSetOnce ==
    [][~DeleteStep =>
         \A c \in Collections : \A i \in 1..Len(ls[c]) :
            Truthy(ls[c][i].id) =>
               /\ i <= Len(ls'[c])
               /\ ls'[c][i].id = ls[c][i].id]_vars

\* the step is the completion of a remote call whose timeout was reported
LateCompletion == late' # late /\ late' \subseteq late

\* C25: the completion of a remote call after its timeout was reported returns
\* nothing to a caller and changes neither the running pass, the synced flags
\* of its operations included, nor the pending queue.
C25_LateCompletionInert ==
    [][LateCompletion =>
         /\ ResultKind(result') = "none"
         /\ drain' = drain
         /\ pendingQueue' = pendingQueue
         /\ ls' = ls]_vars

\* the documents found by looking for the id first, then for the full key,
\* then for student and date
ResolvedIdFirst(docs, data) ==
    IF ById(docs, data.id) # {} THEN ById(docs, data.id)
    ELSE IF ByKey(docs, data) # {} THEN ByKey(docs, data)
    ELSE ByPartialKey(docs, data)

\* the step is a confirmed replay of a queued attendance update
UpdateReplayed ==
    /\ drain # <<>>
    /\ CurrentOp(1).type = "updateAttendanceRecord"
    /\ CurrentOp(1).syncId \in remoteOk' \ remoteOk

\* C26: the replay of a queued attendance update updates a document found by
\* id when there is one, else one found by (studentId, date, event), else one
\* found by (studentId, date); it creates the record when nothing is found.
C26_ReplayResolvesIdFirst ==
    [][UpdateReplayed =>
         LET op == CurrentOp(1)
             targets == ResolvedIdFirst(fb["attendance"], op.data)
         IN fb' \in (IF targets # {}
                     THEN Updated(fb, "attendance", targets, op.data)
                     ELSE Created(fb, "attendance", Normalised(op.data)))]_vars

\* a call of saveToLocalStorage with the given operation has returned, every
\* write to localStorage having succeeded
PutDone(operation) ==
    /\ result.of = "saveToLocalStorage"
    /\ result.kind = operation
    /\ ~result.fault

\* C27: saveToLocalStorage(collection, data, 'delete') raises nothing and
\* leaves the record set without the records that have the KeySpec key of
\* data, every other record kept as it was and where it was.
C27_DeleteByKey ==
    PutDone("delete") =>
        /\ ~result.threw
        /\ result.value =
              SelectSeq(result.before,
                        LAMBDA r : KeySpec(result.collection, r)
                                      # KeySpec(result.collection, result.data))

\* C28: a call of saveToLocalStorage whose write to localStorage throws
\* raises nothing, leaves the record sets of the other collections and the
\* pending queue as they were, and when the one retry succeeds the
\* collection's record set is the record of the call alone.
C28_QuotaRetryContained ==
    [][(fetch.pc = "put" /\ result'.fault) =>
         /\ ~result'.threw
         /\ \A c \in Collections \ {fetch.collection} : ls'[c] = ls[c]
         /\ pendingQueue' = pendingQueue
         /\ result'.retried => ls'[fetch.collection] = <<fetch.data>>]_vars

\* the write of an attendance record threw and the retry went through: the
\* two records the set held are gone, the students, the events and the queued
\* operation are still there
C28_Witness ==
    /\ result.of = "saveToLocalStorage"
    /\ result.fault /\ result.retried
    /\ result.collection = "attendance"
    /\ Len(result.before) = 2
    /\ ls["attendance"] = <<result.data>>
    /\ ls["students"] # <<>> /\ ls["events"] # <<>>
    /\ pendingQueue # <<>>

\* the sequences that list the elements of s in another order
Perms(s) ==
    {[i \in 1..Len(s) |-> s[q[i]]] : q \in Orders(1..Len(s))}

\* no two records of the sequence have the same KeySpec key
DistinctKeys(collection, records) ==
    \A i, j \in 1..Len(records) :
        i # j => KeySpec(collection, records[i]) # KeySpec(collection, records[j])

\* C29: for a local side and a remote side that each list a record set, no
\* two records of one side having the same KeySpec key, mergeData returns the
\* same set of records whatever the order in which the records are listed.
C29_MergeOrderIndependent ==
    (/\ Merged
     /\ DistinctKeys(result.collection, result.local)
     /\ DistinctKeys(result.collection, result.remote)) =>
        \A L \in Perms(result.local), R \in Perms(result.remote) :
            Range(mergeData(L, R, fetchUniqueKey(result.collection)))
                = Range(result.value)

\* the remote store can take the document of one more create
RemoteHasRoom == FreeDocIds # {}

\* C30: if from some time on the network is up, the connectivity flag is
\* online and the remote store is available and accepts every call, then from
\* some time on the pending queue is empty.
C30_DrainEmptiesQueue ==
    <>[](navOnline /\ isOnline /\ fbReady /\ RemoteHasRoom)
        => <>[](pendingQueue = <<>>)

\* C31: when a drain pass ends, every operation that was added to the pending
\* queue after the pass took its snapshot is still in the pending queue.
C31_KeepsQueuedDuringDrain ==
    [][PassEnds =>
         \A id \in SyncIdsOf(pendingQueue) \ SyncIdsOf(drain[1].queue) :
            id \in SyncIdsOf(pendingQueue')]_vars

\* the step is a confirmed replay of a queued student update
StudentUpdateReplayed ==
    /\ drain # <<>>
    /\ CurrentOp(1).type = "updateStudent"
    /\ CurrentOp(1).syncId \in remoteOk' \ remoteOk

\* a later write of the student's record was confirmed by the remote store:
\* the local record, flagged synced, and the document agree on a value that
\* is not the operation's
WrittenSince(op, doc) ==
    /\ doc.val # op.data.val
    /\ \E i \in 1..Len(ls["students"]) :
          /\ ls["students"][i].studentId = doc.studentId
          /\ ls["students"][i].synced = "T"
          /\ ls["students"][i].val = doc.val

\* C32: the replay of a queued student update leaves a document as it is
\* when a write made after the operation was queued has been confirmed for
\* it by the remote store.
C32_ReplayKeepsLatest ==
    [][StudentUpdateReplayed =>
         \A doc \in ByStudent(fb["students"], CurrentOp(1).data) :
            WrittenSince(CurrentOp(1), doc) => doc \in fb'["students"]]_vars

\* the operations of the pending queue and of the running passes
AllQueued ==
    Range(pendingQueue) \cup UNION {Range(drain[d].queue) : d \in 1..Len(drain)}

\* the delete of the student has been drained: the remote store has no
\* document of the student and no delete of the student is queued
DeleteDrained(s) ==
    /\ \A doc \in fb["students"] : doc.studentId # s
    /\ \A op \in AllQueued : ~(op.type = "deleteStudent" /\ op.data.studentId = s)

LocalGone(L, s) == \A i \in 1..Len(L["students"]) : L["students"][i].studentId # s

\* C33: with no student added, once the delete of a student has been drained
\* no step gives the remote store a document of that student again, and no
\* step gives the local set a record of that student again.
C33_DeletedStaysDeleted ==
    [][\A s \in StudentIds :
          DeleteDrained(s) =>
             /\ \A doc \in fb'["students"] : doc.studentId # s
             /\ LocalGone(ls, s) => LocalGone(ls', s)]_vars

\* the step is a step of a running drain pass: a replay returned
PassStep == drain # <<>> /\ drain' # drain

\* C34: a step of a drain pass leaves every local record set as it was.
C34_DrainLeavesLocal ==
    [][PassStep => ls' = ls]_vars

\* nothing is queued, running or awaited, and every local student and
\* attendance record is in the remote store, with its key and its value
AllConfirmed ==
    /\ pendingQueue = <<>> /\ drain = <<>> /\ calls = {} /\ late = {}
    /\ fetch = NoFetch
    /\ \A c \in {"students", "attendance"} : \A i \in 1..Len(ls[c]) :
          \E doc \in fb[c] : /\ KeySpec(c, doc) = KeySpec(c, ls[c][i])
                              /\ doc.val = ls[c][i].val

\* C35: when the pending queue is empty and every local record is confirmed
\* by the remote store, a step other than a call of the page or a change of
\* the network, a reconciliation for one, leaves the pending queue empty.
C35_DrainedStaysEmpty ==
    [][(AllConfirmed /\ envSteps' = envSteps) => pendingQueue' = <<>>]_vars

\* the step is a read of a collection returning with the query's documents
FetchSaved ==
    /\ fetch.pc = "wait"
    /\ result'.of = "get" /\ result'.kind = "merged"

\* C36: a record that a read adds to the local record set, the remote store
\* having it and the local set not, is flagged synced.
C36_FetchedIsSynced ==
    [][FetchSaved =>
         LET c == fetch.collection
         IN \A i \in 1..Len(ls'[c]) :
               ls'[c][i] \notin Range(ls[c]) => ls'[c][i].synced = "T"]_vars

\* the step is a call of executeWithOfflineSupport for an add or an update
\* that queues its operation: the engine offline, or the remote call failed
ExecuteQueued ==
    /\ ResultKind(result') = "local"
    /\ result'.of \in {"addStudent", "addAttendanceRecord", "updateStudent",
                       "updateAttendanceRecord"}
    /\ Len(pendingQueue') = Len(pendingQueue) + 1

\* C37: when a write queues its operation, every local record that has the
\* key of the operation's data is flagged unsynced.
C37_QueuedIsUnsynced ==
    [][ExecuteQueued =>
         LET op == pendingQueue'[Len(pendingQueue')]
         IN \A i \in WithKey(op.collection, ls'[op.collection], op.data) :
               ls'[op.collection][i].synced = "F"]_vars

\* C38: the remote store holds at most one attendance record for each
\* (studentId, date, event).
C38_OneRemotePerKey ==
    \A d, e \in fb["attendance"] :
        KeySpec("attendance", d) = KeySpec("attendance", e) => d = e

\* the names deleteEvent may delete the attendance of: of the local event
\* and of the remote event with the id, and the name passed in
NamesOf(eventId, eventNameParam) ==
    {e.name : e \in {x \in Range(ls["events"]) \cup fb["events"] :
                        x.id = eventId}}
        \cup (IF Truthy(eventNameParam) THEN {eventNameParam} ELSE {})

\* C39: a call of deleteEvent removes, from the local attendance records and
\* from the remote ones, only records of the event with the id or of the name
\* passed in; it removes none when there is no such event and no name.
C39_DeleteEventByName ==
    [][fetch.pc = "deleteEvent" =>
         LET names == NamesOf(fetch.eventId, fetch.eventNameParam)
         IN /\ \A r \in Range(ls["attendance"]) :
                  r.event \notin names => r \in Range(ls'["attendance"])
            /\ \A d \in fb["attendance"] :
                  d.event \notin names => d \in fb'["attendance"]]_vars

\* the records of a set all have a student, a date and an event
Complete(records) ==
    \A i \in 1..Len(records) :
        /\ Truthy(records[i].studentId)
        /\ Truthy(records[i].date)
        /\ Truthy(records[i].event)

\* C40: saveToLocalStorage('attendance', data, 'add') for a record whose
\* (studentId, date, event) no record of the set has appends one record with
\* the data and leaves every record of the set as it was and where it was,
\* also when the date or the event of data is empty (the records of the set
\* all having a student, a date and an event).
C40_AddOfNewKeyAppends ==
    (/\ PutDone("add")
     /\ result.collection = "attendance"
     /\ Complete(result.before)
     /\ WithKey("attendance", result.before, result.data) = {}) =>
        /\ Len(result.value) = Len(result.before) + 1
        /\ SubSeq(result.value, 1, Len(result.before)) = result.before
        /\ \A f \in Fields \ {"synced"} :
              result.value[Len(result.value)][f] = result.data[f]
====
